---- MODULE Spec2Model ----
(***************************************************************************)
(* The structural runtime type-checker of spotipy: a JSON value is checked *)
(* against a type description (primitive, list, union, page, cursor page,  *)
(* TypedDict, raw field mapping) and the outcome is a result tree or a     *)
(* raised exception.  The class TypeChecker of tests/typechecker.py is     *)
(* modelled in full, the classes TypeChecker of type_validation.py and     *)
(* _TypeChecker of tests/integration/test_non_user_endpoints_types.py as   *)
(* the two other copies of it.  Spec makes one call on one input;          *)
(* SignatureSpec calls the checker through an endpoint method's signature; *)
(* ThreadsSpec lets two threads run checks on one checker object, loop     *)
(* step by step.  Of the client, spotipy/client.py, SearchSpec follows a   *)
(* multi-market search request by request and HttpSpec an internal HTTP    *)
(* call from the request to its outcome.                                   *)
(***************************************************************************)
EXTENDS Integers, Sequences, FiniteSets, TLC

VARIABLES
    value,        \* the JSON value handed to the checker
    type_,        \* the type description it is checked against
    alias_named,  \* the interpreter: does a generic alias (List[int]) have __name__
    checker,      \* which entry point ran: "none" before the call
    result,       \* what the call produced: a result tree or a raised exception
    attrs,        \* the attributes of the TypeChecker object: its __dict__
    function,     \* the endpoint method handed to compare_with_signature
    verdict,      \* how a call of the test helper assertType ended
    threads,      \* per thread, the frame of the check it is running
    seen,         \* the checks the threads have completed so far
    printed,      \* the lines pprint rendered for the result
    search,       \* the multi-market search under way on the client
    http          \* the internal HTTP call under way on the client

vars == <<value, type_, alias_named, checker, result, attrs, function, verdict,
          threads, seen, printed, search, http>>

(***************************************************************************)
(* Bounds of the explored inputs.                                          *)
(***************************************************************************)
MaxListLen == 2
MaxAlts == 2

(***************************************************************************)
(* JSON values: a tag k and, for lists and mappings, the content.          *)
(***************************************************************************)
ScalarKinds == {"null", "bool", "int", "float", "str"}
Scalar(kind) == [k |-> kind]
ListV(s) == [k |-> "list", items |-> s]
DictV(f) == [k |-> "dict", m |-> f]
EmptyMap == [x \in {} |-> Scalar("null")]

(***************************************************************************)
(* Type descriptions.                                                      *)
(***************************************************************************)
PrimitiveKinds == {"int", "float", "str", "bool"}
Prim(kind) == [t |-> "prim", kind |-> kind]
ListOf(e) == [t |-> "list", elem |-> e]
UnionOf(alts) == [t |-> "union", alts |-> alts]
PageOf(item) == [t |-> "page", item |-> item]
CursorPageOf(item) == [t |-> "cursor_page", item |-> item]
RawDict(fields) == [t |-> "dict", fields |-> fields]
NoneType == [t |-> "NoneType"]
\* A TypedDict class T: its hints, whether json_types has a class _T (and then
\* the keys _T declares), and T.__total__.
TypedDict(name, hints, has_parent, parent, total) ==
    [t |-> "typeddict", name |-> name, hints |-> hints,
     has_parent |-> has_parent, parent |-> parent, total |-> total]

Restrict(f, S) == [x \in S |-> f[x]]
Put(f, key, v) == [x \in DOMAIN f \cup {key} |-> IF x = key THEN v ELSE f[x]]
MinOf(S) == CHOOSE x \in S : \A y \in S : x <= y

(***************************************************************************)
(* Outcomes.  A raised exception ends the whole call; a result tree is     *)
(* what _TypeCheckingResult.__init__ builds.                               *)
(***************************************************************************)
Raise(exc) == [fault |-> TRUE, exc |-> exc]

NoChildren == [kind |-> "none"]
SingleChild(r) == [kind |-> "single", node |-> r]
DictChildren(f) == [kind |-> "dict", map |-> f]

\* _TypeCheckingResult deriving has_errors from its own messages alone.
_TypeCheckingResult_own_errors_only(label, errors, children) ==
    LET kept == IF children.kind = "dict" /\ DOMAIN children.map = {}
                THEN NoChildren ELSE children
    IN [fault |-> FALSE,
        label |-> label,
        error_messages |-> errors,
        children |-> kept,
        has_errors |-> errors # <<>>]

_TypeCheckingResult(label, errors, children) ==
    LET kept == IF children.kind = "dict" /\ DOMAIN children.map = {}
                THEN NoChildren ELSE children
    IN [fault |-> FALSE,
        label |-> label,
        error_messages |-> errors,
        children |-> kept,
        has_errors |->
            IF errors # <<>> THEN TRUE
            ELSE IF kept.kind = "single" THEN kept.node.has_errors
            ELSE IF kept.kind = "dict"
                 THEN \E f \in DOMAIN kept.map : kept.map[f].has_errors
            ELSE FALSE]

(***************************************************************************)
(* The error messages, kept structured: what each f-string interpolates.   *)
(***************************************************************************)
ExpectedTypeMsg(v, kind) ==
    [msg |-> "expected type", value |-> v, expected |-> kind, got |-> v.k]
NotAListMsg == [msg |-> "The value is not a list"]
OutOfMsg(n_err, n) == [msg |-> "elements don't match the type", errors |-> n_err, out_of |-> n]
NoneMatchedMsg == [msg |-> "None of the union types matched"]
NotADictMsg(label, v) == [msg |-> "is not a dict", expected |-> label, value |-> v]
UnrecognizedMsg(keys) == [msg |-> "Unrecognized keys", keys |-> keys]
MissingKeyMsg(keys) == [msg |-> "Missing required key", keys |-> keys]
MissingKeysMsg(keys) == [msg |-> "Missing required keys", keys |-> keys]

(***************************************************************************)
(* _TypeCheckingResult.pprint: the rendering as its lines, each with the   *)
(* number of spaces before it and what it shows.  textwrap.indent moves    *)
(* every line of the block (none is blank) to the right.  The children of  *)
(* a mapping are rendered in the order the dict yields them; the model     *)
(* takes one fixed order of the keys.                                      *)
(***************************************************************************)
Line(indent, text) == [indent |-> indent, text |-> text]
LabelText(label) == [shows |-> "label", label |-> label]
BulletText(error) == [shows |-> "error", error |-> error]
FieldText(field) == [shows |-> "field", field |-> field]
OpenBrace == [shows |-> "{"]
CloseBrace == [shows |-> "}"]
Indented(lines, spaces) ==
    [i \in DOMAIN lines |-> Line(lines[i].indent + spaces, lines[i].text)]

RECURSIVE KeySeq(_)
KeySeq(S) ==
    IF S = {} THEN <<>>
    ELSE LET k == CHOOSE x \in S : TRUE IN <<k>> \o KeySeq(S \ {k})

RECURSIVE pprint(_, _)
RECURSIVE pprint_fields(_, _, _)

\* pprint descending into every child, failing or not.
pprint_every_child(r, spaces) ==
    LET head == <<Line(0, LabelText(r.label))>>
                \o [i \in DOMAIN r.error_messages |->
                       Line(2, BulletText(r.error_messages[i]))]
        body ==
            IF r.children.kind = "dict"
            THEN <<Line(2, OpenBrace)>>
                 \o pprint_fields(r.children.map, KeySeq(DOMAIN r.children.map), 1)
                 \o <<Line(2, CloseBrace)>>
            ELSE IF r.children.kind = "single"
            THEN pprint(r.children.node, 2)
            ELSE <<>>
    IN Indented(head \o body, spaces)

pprint(r, spaces) ==
    LET head == <<Line(0, LabelText(r.label))>>
                \o [i \in DOMAIN r.error_messages |->
                       Line(2, BulletText(r.error_messages[i]))]
        body ==
            IF r.children.kind = "dict"
            THEN LET error_children ==
                         {field \in DOMAIN r.children.map :
                              r.children.map[field].has_errors}
                 IN IF error_children # {}
                    THEN <<Line(2, OpenBrace)>>
                         \o pprint_fields(r.children.map, KeySeq(error_children), 1)
                         \o <<Line(2, CloseBrace)>>
                    ELSE <<>>
            ELSE IF r.children.kind = "single" /\ r.children.node.has_errors
            THEN pprint(r.children.node, 2)
            ELSE <<>>
    IN Indented(head \o body, spaces)

\* The loop over error_children from position i on: "field:" and the child.
pprint_fields(map, fields, i) ==
    IF i > Len(fields) THEN <<>>
    ELSE <<Line(4, FieldText(fields[i]))>>
         \o pprint(map[fields[i]], 6)
         \o pprint_fields(map, fields, i + 1)

\* isinstance(value, type_) for type_ in int, float, str, bool: bool is a
\* subclass of int, nothing else is related.
isinstance(v, kind) == v.k = kind \/ (kind = "int" /\ v.k = "bool")

\* tp.__name__ of a union alternative: a class has one; a generic alias
\* (List[X], Page[X]) has one only on interpreters that relay it.
HasName(tp) == tp.t \in {"prim", "typeddict", "NoneType"} \/ alias_named
NameOf(tp) ==
    CASE tp.t = "prim" -> tp.kind
      [] tp.t = "typeddict" -> tp.name
      [] tp.t = "list" -> "List"
      [] tp.t = "page" -> "Page"
      [] tp.t = "cursor_page" -> "CursorPage"
      [] OTHER -> "NoneType"

\* RequiredKeys testing __total__ before looking for the class _T.
RequiredKeys_total_first(tp) ==
    IF tp.total THEN DOMAIN tp.hints
    ELSE IF tp.has_parent THEN tp.parent
    ELSE {}

\* _match_typeddict's split of the hints of T: the keys of _T when json_types
\* has a class _T, else all keys when T is total, else none; the rest is optional.
RequiredKeys(tp) ==
    IF tp.has_parent THEN tp.parent
    ELSE IF tp.total THEN DOMAIN tp.hints
    ELSE {}
OptionalKeys(tp) ==
    IF tp.has_parent THEN DOMAIN tp.hints \ tp.parent
    ELSE IF tp.total THEN {}
    ELSE DOMAIN tp.hints

PageFields == {"href", "items", "limit", "next", "offset", "previous", "total"}
CursorPageFields == {"cursors", "href", "items", "limit", "next", "total"}

(***************************************************************************)
(* tests/typechecker.py: class TypeChecker.                                *)
(***************************************************************************)
RECURSIVE typecheck(_, _)
RECURSIVE _match_list(_, _)
RECURSIVE _match_union_from(_, _, _, _)
RECURSIVE _match_union(_, _)
RECURSIVE _match_page(_, _)
RECURSIVE _match_typeddict(_, _)
RECURSIVE _match_dict(_, _, _)

_match_primitive(v, tp) ==
    IF ~isinstance(v, tp.kind)
    THEN _TypeCheckingResult("primitive", <<ExpectedTypeMsg(v, tp.kind)>>, NoChildren)
    ELSE _TypeCheckingResult("primitive", <<>>, NoChildren)

_match_list(list_, nested_type) ==
    IF list_.k # "list"
    THEN _TypeCheckingResult("list", <<NotAListMsg>>, NoChildren)
    ELSE LET n == Len(list_.items)
             matches == [i \in 1..n |-> typecheck(list_.items[i], nested_type)]
             raised == {i \in 1..n : matches[i].fault}
             error_matches == SelectSeq(matches, LAMBDA m : m.has_errors)
         IN IF raised # {} THEN matches[MinOf(raised)]
            ELSE IF error_matches # <<>>
            THEN _TypeCheckingResult("list",
                     <<OutOfMsg(Len(error_matches), n)>>,
                     DictChildren("first error" :> error_matches[1]))
            ELSE _TypeCheckingResult("list", <<>>, NoChildren)

\* _match_union_from checking every remaining alternative before it looks at
\* the outcome of the first.
_match_union_from_eager(v, alts, i, children) ==
    LET raised == {j \in i..Len(alts) : typecheck(v, alts[j]).fault}
    IN IF raised # {} THEN typecheck(v, alts[MinOf(raised)])
       ELSE IF i > Len(alts)
       THEN _TypeCheckingResult("union", <<NoneMatchedMsg>>, DictChildren(children))
       ELSE LET outcome == typecheck(v, alts[i])
            IN IF ~outcome.has_errors
               THEN _TypeCheckingResult("union", <<>>, NoChildren)
               ELSE IF ~HasName(alts[i]) THEN Raise("AttributeError")
               ELSE _match_union_from(v, alts, i + 1,
                                      Put(children, NameOf(alts[i]), outcome))

\* The for loop of _match_union from alternative i on, children collected so far.
_match_union_from(v, alts, i, children) ==
    IF i > Len(alts)
    THEN _TypeCheckingResult("union", <<NoneMatchedMsg>>, DictChildren(children))
    ELSE LET match == typecheck(v, alts[i])
         IN IF match.fault THEN match
            ELSE IF ~match.has_errors
            THEN _TypeCheckingResult("union", <<>>, NoChildren)
            ELSE IF ~HasName(alts[i]) THEN Raise("AttributeError")
            ELSE _match_union_from(v, alts, i + 1,
                                   Put(children, NameOf(alts[i]), match))

_match_union(v, tp) == _match_union_from(v, tp.alts, 1, <<>>)

\* _match_page with the check for missing fixed fields left out.
_match_page_no_missing_check(v, tp) ==
    LET label == IF tp.t = "page" THEN "page" ELSE "cursor_page"
        fields == IF tp.t = "page" THEN PageFields ELSE CursorPageFields
    IN IF v.k # "dict"
       THEN _TypeCheckingResult(label, <<NotADictMsg(label, v)>>, NoChildren)
       ELSE LET keys == DOMAIN v.m
                errors == IF keys \ fields # {}
                          THEN <<UnrecognizedMsg(keys \ fields)>> ELSE <<>>
            IN IF errors # <<>>
               THEN _TypeCheckingResult(label, errors, NoChildren)
               ELSE IF "items" \notin keys THEN Raise("KeyError")
               ELSE LET nested_match == _match_list(v.m["items"], tp.item)
                    IN IF nested_match.fault THEN nested_match
                       ELSE _TypeCheckingResult(label, errors,
                                                SingleChild(nested_match))

\* _match_page with "elif" for the second comparison: one message at most.
_match_page_elif(v, tp) ==
    LET label == IF tp.t = "page" THEN "page" ELSE "cursor_page"
        fields == IF tp.t = "page" THEN PageFields ELSE CursorPageFields
    IN IF v.k # "dict"
       THEN _TypeCheckingResult(label, <<NotADictMsg(label, v)>>, NoChildren)
       ELSE LET keys == DOMAIN v.m
                errors ==
                    IF keys \ fields # {}
                    THEN <<UnrecognizedMsg(keys \ fields)>>
                    ELSE IF fields \ keys # {}
                    THEN <<MissingKeyMsg(fields \ keys)>> ELSE <<>>
            IN IF errors # <<>>
               THEN _TypeCheckingResult(label, errors, NoChildren)
               ELSE LET nested_match == _match_list(v.m["items"], tp.item)
                    IN IF nested_match.fault THEN nested_match
                       ELSE _TypeCheckingResult(label, errors,
                                                SingleChild(nested_match))

\* _match_page without the early return: the items are checked even when the
\* comparison of the fields has failed.
_match_page_no_early_return(v, tp) ==
    LET label == IF tp.t = "page" THEN "page" ELSE "cursor_page"
        fields == IF tp.t = "page" THEN PageFields ELSE CursorPageFields
    IN IF v.k # "dict"
       THEN _TypeCheckingResult(label, <<NotADictMsg(label, v)>>, NoChildren)
       ELSE LET keys == DOMAIN v.m
                errors ==
                    (IF keys \ fields # {}
                     THEN <<UnrecognizedMsg(keys \ fields)>> ELSE <<>>)
                    \o (IF fields \ keys # {}
                        THEN <<MissingKeyMsg(fields \ keys)>> ELSE <<>>)
            IN IF "items" \notin keys
               THEN _TypeCheckingResult(label, errors, NoChildren)
               ELSE LET nested_match == _match_list(v.m["items"], tp.item)
                    IN IF nested_match.fault THEN nested_match
                       ELSE _TypeCheckingResult(label, errors,
                                                SingleChild(nested_match))

\* _match_page checking besides that the field limit holds an integer.
_match_page_checks_limit(v, tp) ==
    LET label == IF tp.t = "page" THEN "page" ELSE "cursor_page"
        fields == IF tp.t = "page" THEN PageFields ELSE CursorPageFields
    IN IF v.k # "dict"
       THEN _TypeCheckingResult(label, <<NotADictMsg(label, v)>>, NoChildren)
       ELSE LET keys == DOMAIN v.m
                errors ==
                    (IF keys \ fields # {}
                     THEN <<UnrecognizedMsg(keys \ fields)>> ELSE <<>>)
                    \o (IF fields \ keys # {}
                        THEN <<MissingKeyMsg(fields \ keys)>> ELSE <<>>)
                    \o (IF "limit" \in keys /\ v.m["limit"].k # "int"
                        THEN <<ExpectedTypeMsg(v.m["limit"], "int")>> ELSE <<>>)
            IN IF errors # <<>>
               THEN _TypeCheckingResult(label, errors, NoChildren)
               ELSE LET nested_match == _match_list(v.m["items"], tp.item)
                    IN IF nested_match.fault THEN nested_match
                       ELSE _TypeCheckingResult(label, errors,
                                                SingleChild(nested_match))

_match_page(v, tp) ==
    LET label == IF tp.t = "page" THEN "page" ELSE "cursor_page"
        fields == IF tp.t = "page" THEN PageFields ELSE CursorPageFields
    IN IF v.k # "dict"
       THEN _TypeCheckingResult(label, <<NotADictMsg(label, v)>>, NoChildren)
       ELSE LET keys == DOMAIN v.m
                errors ==
                    (IF keys \ fields # {}
                     THEN <<UnrecognizedMsg(keys \ fields)>> ELSE <<>>)
                    \o (IF fields \ keys # {}
                        THEN <<MissingKeyMsg(fields \ keys)>> ELSE <<>>)
            IN IF errors # <<>>
               THEN _TypeCheckingResult(label, errors, NoChildren)
               ELSE LET nested_match == _match_list(v.m["items"], tp.item)
                    IN IF nested_match.fault THEN nested_match
                       ELSE _TypeCheckingResult(label, errors,
                                                SingleChild(nested_match))

\* _match_typeddict without the comparison of the value's keys with the hints.
_match_typeddict_no_unrecognized(v, tp) ==
    IF v.k # "dict" THEN Raise("AttributeError")
    ELSE LET all_hints == tp.hints
             required == Restrict(all_hints, RequiredKeys(tp))
             optional == Restrict(all_hints, OptionalKeys(tp))
             req == _match_dict(v, required, FALSE)
             opt == _match_dict(v, optional, TRUE)
         IN IF req.fault THEN req
            ELSE IF DOMAIN optional = {}
            THEN _TypeCheckingResult(tp.name, <<>>,
                                     DictChildren("required" :> req))
            ELSE IF opt.fault THEN opt
            ELSE _TypeCheckingResult(tp.name, <<>>,
                     DictChildren("required" :> req @@ "optional" :> opt))

_match_typeddict(v, tp) ==
    IF v.k # "dict" THEN Raise("AttributeError")  \* value.keys()
    ELSE LET all_hints == tp.hints
             keys == DOMAIN v.m
             errors == IF keys \ DOMAIN all_hints # {}
                       THEN <<UnrecognizedMsg(keys \ DOMAIN all_hints)>>
                       ELSE <<>>
             required == Restrict(all_hints, RequiredKeys(tp))
             optional == Restrict(all_hints, OptionalKeys(tp))
             req == _match_dict(v, required, FALSE)
             opt == _match_dict(v, optional, TRUE)
         IN IF req.fault THEN req
            ELSE IF DOMAIN optional = {}
            THEN _TypeCheckingResult(tp.name, errors,
                                     DictChildren("required" :> req))
            ELSE IF opt.fault THEN opt
            ELSE _TypeCheckingResult(tp.name, errors,
                     DictChildren("required" :> req @@ "optional" :> opt))

\* _match_dict with the set difference the wrong way round.
_match_dict_reversed_difference(v, tp, optional) ==
    LET v_fields == DOMAIN v.m
        t_fields == DOMAIN tp
        errors == IF ~optional /\ v_fields \ t_fields # {}
                  THEN <<MissingKeysMsg(v_fields \ t_fields)>> ELSE <<>>
        both == v_fields \cap t_fields
        match == [field \in both |-> typecheck(v.m[field], tp[field])]
        raised == {field \in both : match[field].fault}
        failing == {field \in both : match[field].has_errors}
    IN IF raised # {} THEN match[CHOOSE field \in raised : TRUE]
       ELSE _TypeCheckingResult("dict", errors,
                                DictChildren(Restrict(match, failing)))

\* _match_dict that forgets its parameter optional.
_match_dict_optional_ignored(v, tp, optional) ==
    LET v_fields == DOMAIN v.m
        t_fields == DOMAIN tp
        errors == IF t_fields \ v_fields # {}
                  THEN <<MissingKeysMsg(t_fields \ v_fields)>> ELSE <<>>
        both == v_fields \cap t_fields
        match == [field \in both |-> typecheck(v.m[field], tp[field])]
        raised == {field \in both : match[field].fault}
        failing == {field \in both : match[field].has_errors}
    IN IF raised # {} THEN match[CHOOSE field \in raised : TRUE]
       ELSE _TypeCheckingResult("dict", errors,
                                DictChildren(Restrict(match, failing)))

\* _match_dict storing the check of every common field, passing or not.
_match_dict_keeps_all(v, tp, optional) ==
    LET v_fields == DOMAIN v.m
        t_fields == DOMAIN tp
        errors == IF ~optional /\ t_fields \ v_fields # {}
                  THEN <<MissingKeysMsg(t_fields \ v_fields)>> ELSE <<>>
        both == v_fields \cap t_fields
        match == [field \in both |-> typecheck(v.m[field], tp[field])]
        raised == {field \in both : match[field].fault}
    IN IF raised # {} THEN match[CHOOSE field \in raised : TRUE]
       ELSE _TypeCheckingResult("dict", errors, DictChildren(match))

\* tp is the mapping field name -> type description itself.
_match_dict(v, tp, optional) ==
    LET v_fields == DOMAIN v.m
        t_fields == DOMAIN tp
        errors == IF ~optional /\ t_fields \ v_fields # {}
                  THEN <<MissingKeysMsg(t_fields \ v_fields)>> ELSE <<>>
        both == v_fields \cap t_fields
        match == [field \in both |-> typecheck(v.m[field], tp[field])]
        raised == {field \in both : match[field].fault}
        failing == {field \in both : match[field].has_errors}
    IN IF raised # {} THEN match[CHOOSE field \in raised : TRUE]
       ELSE _TypeCheckingResult("dict", errors,
                                DictChildren(Restrict(match, failing)))

\* TypeCheckerDispatch asking for a list value before taking the list branch.
TypeCheckerDispatch_list_by_value(v, tp) ==
    IF tp.t = "prim" THEN "primitive"
    ELSE IF v.k = "dict" /\ tp.t = "dict" THEN "dict"
    ELSE IF v.k = "list" /\ tp.t = "list" THEN "list"
    ELSE IF tp.t = "union" THEN "union"
    ELSE IF tp.t \in {"page", "cursor_page"} THEN "page"
    ELSE IF tp.t = "typeddict" /\ DOMAIN tp.hints # {} THEN "typeddict"
    ELSE "ValueError"

TypeCheckerDispatch(v, tp) ==
    IF tp.t = "prim" THEN "primitive"
    ELSE IF v.k = "dict" /\ tp.t = "dict" THEN "dict"
    ELSE IF tp.t = "list" THEN "list"
    ELSE IF tp.t = "union" THEN "union"
    ELSE IF tp.t \in {"page", "cursor_page"} THEN "page"
    ELSE IF tp.t = "typeddict" /\ DOMAIN tp.hints # {} THEN "typeddict"
    ELSE "ValueError"

\* typecheck reporting an unknown type description in a result, not raising.
typecheck_unknown_reported(v, tp) ==
    LET branch == TypeCheckerDispatch(v, tp)
    IN CASE branch = "primitive" -> _match_primitive(v, tp)
         [] branch = "dict" -> _match_dict(v, tp.fields, FALSE)
         [] branch = "list" -> _match_list(v, tp.elem)
         [] branch = "union" -> _match_union(v, tp)
         [] branch = "page" -> _match_page(v, tp)
         [] branch = "typeddict" -> _match_typeddict(v, tp)
         [] OTHER -> _TypeCheckingResult("unknown", <<[msg |-> "Unknown type"]>>,
                                         NoChildren)

typecheck(v, tp) ==
    LET branch == TypeCheckerDispatch(v, tp)
    IN CASE branch = "primitive" -> _match_primitive(v, tp)
         [] branch = "dict" -> _match_dict(v, tp.fields, FALSE)
         [] branch = "list" -> _match_list(v, tp.elem)
         [] branch = "union" -> _match_union(v, tp)
         [] branch = "page" -> _match_page(v, tp)
         [] branch = "typeddict" -> _match_typeddict(v, tp)
         [] OTHER -> Raise("ValueError")

(***************************************************************************)
(* type_validation.py: class Result and class TypeChecker.                 *)
(***************************************************************************)
Result(label, errors, children) ==
    LET kept == IF children.kind = "dict" /\ DOMAIN children.map = {}
                THEN NoChildren ELSE children
    IN [fault |-> FALSE,
        label |-> label,
        error_messages |-> errors,
        children |-> kept,
        has_errors |->
            IF errors # <<>> THEN TRUE
            ELSE IF kept.kind = "single" THEN kept.node.has_errors
            ELSE IF kept.kind = "dict"
                 THEN \E f \in DOMAIN kept.map : kept.map[f].has_errors
            ELSE FALSE]

\* What "for element in list_" and len(list_) see: a list gives its elements,
\* a mapping its keys, a string its characters (a str value of the model
\* stands for a one-character string such as "a"); nothing else is iterable.
Iterable(v) == v.k \in {"list", "dict", "str"}
Elements(v) ==
    CASE v.k = "list" -> v.items
      [] v.k = "dict" -> [i \in 1..Cardinality(DOMAIN v.m) |-> Scalar("str")]
      [] OTHER -> <<Scalar("str")>>

RECURSIVE match(_, _)
RECURSIVE match_list(_, _)
RECURSIVE match_union_from(_, _, _, _)
RECURSIVE match_union(_, _)
RECURSIVE match_page(_, _)
RECURSIVE match_typeddict(_, _)
RECURSIVE match_dict(_, _, _)

\* The failing Result is built and dropped: there is no return before it.
match_primitive(v, tp) == Result("primitive", <<>>, NoChildren)

match_list(list_, nested_type) ==
    IF ~Iterable(list_) THEN Raise("TypeError")
    ELSE LET elements == Elements(list_)
             n == Len(elements)
             matches == [i \in 1..n |-> match(elements[i], nested_type)]
             raised == {i \in 1..n : matches[i].fault}
             error_matches == SelectSeq(matches, LAMBDA m : m.has_errors)
         IN IF raised # {} THEN matches[MinOf(raised)]
            ELSE IF error_matches # <<>>
            THEN Result("list", <<OutOfMsg(Len(error_matches), n)>>,
                        DictChildren("first error" :> error_matches[1]))
            ELSE Result("list", <<>>, NoChildren)

match_union_from(v, alts, i, children) ==
    IF i > Len(alts)
    THEN Result("union", <<NoneMatchedMsg>>, DictChildren(children))
    ELSE LET m == match(v, alts[i])
         IN IF m.fault THEN m
            ELSE IF ~m.has_errors THEN Result("union", <<>>, NoChildren)
            ELSE IF ~HasName(alts[i]) THEN Raise("AttributeError")
            ELSE match_union_from(v, alts, i + 1, Put(children, NameOf(alts[i]), m))

match_union(v, tp) == match_union_from(v, tp.alts, 1, <<>>)

match_page(v, tp) ==
    LET label == IF tp.t = "page" THEN "page" ELSE "cursor_page"
        fields == IF tp.t = "page" THEN PageFields ELSE CursorPageFields
    IN IF v.k # "dict"
       THEN Result(label, <<NotADictMsg(label, v)>>, NoChildren)
       ELSE LET keys == DOMAIN v.m
                errors ==
                    (IF keys \ fields # {}
                     THEN <<UnrecognizedMsg(keys \ fields)>> ELSE <<>>)
                    \o (IF fields \ keys # {}
                        THEN <<MissingKeyMsg(fields \ keys)>> ELSE <<>>)
            IN IF errors # <<>> THEN Result(label, errors, NoChildren)
               ELSE LET nested_match == match_list(v.m["items"], tp.item)
                    IN IF nested_match.fault THEN nested_match
                       ELSE Result(label, errors, SingleChild(nested_match))

match_typeddict(v, tp) ==
    IF ~tp.has_parent THEN Raise("AttributeError")  \* getattr(json_types, "_" + name)
    ELSE IF v.k # "dict" THEN Raise("AttributeError")  \* value.keys()
    ELSE LET everything == tp.hints
             required == Restrict(everything, tp.parent)
             optional == Restrict(everything, DOMAIN everything \ tp.parent)
             keys == DOMAIN v.m
             errors == IF keys \ DOMAIN everything # {}
                       THEN <<UnrecognizedMsg(keys \ DOMAIN everything)>>
                       ELSE <<>>
             req == match_dict(v, required, FALSE)
             opt == match_dict(v, optional, TRUE)
         IN IF req.fault THEN req
            ELSE IF DOMAIN optional = {}
            THEN Result(tp.name, errors, DictChildren("required" :> req))
            ELSE IF opt.fault THEN opt
            ELSE Result(tp.name, errors,
                        DictChildren("required" :> req @@ "optional" :> opt))

match_dict(v, tp, optional) ==
    LET v_fields == DOMAIN v.m
        t_fields == DOMAIN tp
        errors == IF ~optional /\ t_fields \ v_fields # {}
                  THEN <<MissingKeysMsg(t_fields \ v_fields)>> ELSE <<>>
        both == v_fields \cap t_fields
        m == [field \in both |-> match(v.m[field], tp[field])]
        raised == {field \in both : m[field].fault}
        failing == {field \in both : m[field].has_errors}
    IN IF raised # {} THEN m[CHOOSE field \in raised : TRUE]
       ELSE Result("dict", errors, DictChildren(Restrict(m, failing)))

match(v, tp) ==
    IF tp.t = "prim" THEN match_primitive(v, tp)
    ELSE IF v.k = "dict" /\ tp.t = "dict" THEN match_dict(v, tp.fields, FALSE)
    ELSE IF tp.t = "list" THEN match_list(v, tp.elem)
    ELSE IF tp.t = "union" THEN match_union(v, tp)
    ELSE IF tp.t \in {"page", "cursor_page"} THEN match_page(v, tp)
    ELSE IF tp.t = "typeddict" /\ DOMAIN tp.hints # {} THEN match_typeddict(v, tp)
    ELSE Raise("ValueError")

(***************************************************************************)
(* tests/integration/test_non_user_endpoints_types.py: class _TypeChecker. *)
(* Its _TypeCheckingResult computes has_errors as Result does.  The        *)
(* methods are those of type_validation.py but for match_typeddict, which  *)
(* looks for the class _T with hasattr and takes every hint as required    *)
(* when there is none, total or not.                                       *)
(***************************************************************************)
RECURSIVE _TypeChecker_match(_, _)
RECURSIVE _TypeChecker_match_list(_, _)
RECURSIVE _TypeChecker_match_union_from(_, _, _, _)
RECURSIVE _TypeChecker_match_union(_, _)
RECURSIVE _TypeChecker_match_page(_, _)
RECURSIVE _TypeChecker_match_typeddict(_, _)
RECURSIVE _TypeChecker_match_dict(_, _, _)

\* The failing result is built and dropped here too.
_TypeChecker_match_primitive(v, tp) == Result("primitive", <<>>, NoChildren)

_TypeChecker_match_list(list_, nested_type) ==
    IF ~Iterable(list_) THEN Raise("TypeError")
    ELSE LET elements == Elements(list_)
             n == Len(elements)
             matches == [i \in 1..n |-> _TypeChecker_match(elements[i], nested_type)]
             raised == {i \in 1..n : matches[i].fault}
             error_matches == SelectSeq(matches, LAMBDA m : m.has_errors)
         IN IF raised # {} THEN matches[MinOf(raised)]
            ELSE IF error_matches # <<>>
            THEN Result("list", <<OutOfMsg(Len(error_matches), n)>>,
                        DictChildren("first error" :> error_matches[1]))
            ELSE Result("list", <<>>, NoChildren)

_TypeChecker_match_union_from(v, alts, i, children) ==
    IF i > Len(alts)
    THEN Result("union", <<NoneMatchedMsg>>, DictChildren(children))
    ELSE LET m == _TypeChecker_match(v, alts[i])
         IN IF m.fault THEN m
            ELSE IF ~m.has_errors THEN Result("union", <<>>, NoChildren)
            ELSE IF ~HasName(alts[i]) THEN Raise("AttributeError")
            ELSE _TypeChecker_match_union_from(v, alts, i + 1,
                                               Put(children, NameOf(alts[i]), m))

_TypeChecker_match_union(v, tp) == _TypeChecker_match_union_from(v, tp.alts, 1, <<>>)

_TypeChecker_match_page(v, tp) ==
    LET label == IF tp.t = "page" THEN "page" ELSE "cursor_page"
        fields == IF tp.t = "page" THEN PageFields ELSE CursorPageFields
    IN IF v.k # "dict"
       THEN Result(label, <<NotADictMsg(label, v)>>, NoChildren)
       ELSE LET keys == DOMAIN v.m
                errors ==
                    (IF keys \ fields # {}
                     THEN <<UnrecognizedMsg(keys \ fields)>> ELSE <<>>)
                    \o (IF fields \ keys # {}
                        THEN <<MissingKeyMsg(fields \ keys)>> ELSE <<>>)
            IN IF errors # <<>> THEN Result(label, errors, NoChildren)
               ELSE LET nested_match == _TypeChecker_match_list(v.m["items"], tp.item)
                    IN IF nested_match.fault THEN nested_match
                       ELSE Result(label, errors, SingleChild(nested_match))

_TypeChecker_match_typeddict(v, tp) ==
    IF v.k # "dict" THEN Raise("AttributeError")  \* value.keys()
    ELSE LET all_hints == tp.hints
             keys == DOMAIN v.m
             errors == IF keys \ DOMAIN all_hints # {}
                       THEN <<UnrecognizedMsg(keys \ DOMAIN all_hints)>>
                       ELSE <<>>
             required == IF tp.has_parent THEN Restrict(all_hints, tp.parent)
                         ELSE all_hints
             optional == Restrict(all_hints, DOMAIN all_hints \ DOMAIN required)
             req == _TypeChecker_match_dict(v, required, FALSE)
             opt == _TypeChecker_match_dict(v, optional, TRUE)
         IN IF req.fault THEN req
            ELSE IF DOMAIN optional = {}
            THEN Result(tp.name, errors, DictChildren("required" :> req))
            ELSE IF opt.fault THEN opt
            ELSE Result(tp.name, errors,
                        DictChildren("required" :> req @@ "optional" :> opt))

_TypeChecker_match_dict(v, tp, optional) ==
    LET v_fields == DOMAIN v.m
        t_fields == DOMAIN tp
        errors == IF ~optional /\ t_fields \ v_fields # {}
                  THEN <<MissingKeysMsg(t_fields \ v_fields)>> ELSE <<>>
        both == v_fields \cap t_fields
        m == [field \in both |-> _TypeChecker_match(v.m[field], tp[field])]
        raised == {field \in both : m[field].fault}
        failing == {field \in both : m[field].has_errors}
    IN IF raised # {} THEN m[CHOOSE field \in raised : TRUE]
       ELSE Result("dict", errors, DictChildren(Restrict(m, failing)))

_TypeChecker_match(v, tp) ==
    IF tp.t = "prim" THEN _TypeChecker_match_primitive(v, tp)
    ELSE IF v.k = "dict" /\ tp.t = "dict" THEN _TypeChecker_match_dict(v, tp.fields, FALSE)
    ELSE IF tp.t = "list" THEN _TypeChecker_match_list(v, tp.elem)
    ELSE IF tp.t = "union" THEN _TypeChecker_match_union(v, tp)
    ELSE IF tp.t \in {"page", "cursor_page"} THEN _TypeChecker_match_page(v, tp)
    ELSE IF tp.t = "typeddict" /\ DOMAIN tp.hints # {}
    THEN _TypeChecker_match_typeddict(v, tp)
    ELSE Raise("ValueError")

(***************************************************************************)
(* The inputs explored.                                                    *)
(***************************************************************************)
SeqsUpTo(S, n) == UNION {[1..i -> S] : i \in 0..n}
Mappings(K, V) == UNION {[S -> V] : S \in SUBSET K}
InjectiveSeqs(S, lo, hi) ==
    {s \in UNION {[1..i -> S] : i \in lo..hi} :
        \A i, j \in DOMAIN s : i # j => s[i] # s[j]}

Image == TypedDict("Image", "url" :> Prim("str"), FALSE, {}, TRUE)
Artist == TypedDict("Artist", "url" :> Prim("int"), FALSE, {}, TRUE)
ImageOk == DictV("url" :> Scalar("str"))
ImageBad == DictV("url" :> Scalar("int"))

\* Records: every TypedDict and raw mapping over two declared fields, against
\* every mapping over those fields and one undeclared one.
DeclFields == {"id", "name"}
FieldTypes == {Prim("str"), Prim("int"), Image, NoneType}
FieldValues == {Scalar("str"), Scalar("int"), ImageOk, ImageBad}
RecordTypes ==
    UNION {
        {TypedDict("Track", h, TRUE, p, TRUE) : p \in SUBSET DOMAIN h}
        \cup {TypedDict("Track", h, FALSE, {}, tot) : tot \in BOOLEAN}
        : h \in Mappings(DeclFields, FieldTypes)}
RawDictTypes == {RawDict(h) : h \in Mappings(DeclFields, FieldTypes)}
RecordValues == {DictV(f) : f \in Mappings(DeclFields \cup {"weird"}, FieldValues)}

\* Lists.
ElemTypes == {Prim(kd) : kd \in PrimitiveKinds} \cup {Image, NoneType, ListOf(Prim("int"))}
ElemValues == {Scalar("int"), Scalar("float"), Scalar("str"), Scalar("bool"),
               ImageOk, ImageBad}
ListTypes == {ListOf(e) : e \in ElemTypes}
ListValues == {ListV(s) : s \in SeqsUpTo(ElemValues, MaxListLen)}

\* Unions: two to MaxAlts distinct alternatives.
AltTypes == {Prim("int"), Prim("str"), Prim("float"), Image, Artist,
             ListOf(Prim("int")), ListOf(Prim("str")), NoneType}
UnionTypes == {UnionOf(s) : s \in InjectiveSeqs(AltTypes, 2, MaxAlts)}
UnionValues == {Scalar("int"), Scalar("str"), Scalar("bool"), Scalar("null"),
                ImageOk, ImageBad, ListV(<<>>), ListV(<<Scalar("int")>>),
                ListV(<<Scalar("str")>>)}

\* Pages: href and limit always present, every other key free.
ItemTypes == {Prim("str"), Prim("int"), Image, UnionOf(<<Image, Artist>>),
              ListOf(Prim("int")), NoneType}
ItemValues == {Scalar("str"), Scalar("int"), ImageOk, ImageBad}
PageTypes == {PageOf(i) : i \in ItemTypes} \cup {CursorPageOf(i) : i \in ItemTypes}
ItemsValues == {ListV(s) : s \in SeqsUpTo(ItemValues, MaxListLen)}
               \cup {Scalar("null"), Scalar("str"), ImageOk}
FixedKeys == {"href", "limit"}
FreeKeys == {"cursors", "items", "next", "offset", "previous", "total", "extra"}
PageFieldValue(key, items) ==
    CASE key = "items" -> items
      [] key \in {"href", "cursors"} -> Scalar("str")
      [] key \in {"limit", "offset", "total", "extra"} -> Scalar("int")
      [] OTHER -> Scalar("null")
PageValues ==
    {DictV([key \in FixedKeys \cup S |-> PageFieldValue(key, items)]) :
        S \in SUBSET FreeKeys, items \in ItemsValues}

\* Every type description against one value of every shape.
BasicValues == {Scalar(kd) : kd \in ScalarKinds}
               \cup {ListV(<<>>), ListV(<<Scalar("int")>>), DictV(EmptyMap), ImageOk}
AllTypes == {Prim(kd) : kd \in PrimitiveKinds} \cup {NoneType}
            \cup RecordTypes \cup RawDictTypes \cup ListTypes
            \cup UnionTypes \cup PageTypes

Inputs ==
    (RecordValues \X (RecordTypes \cup RawDictTypes))
    \cup (ListValues \X ListTypes)
    \cup (UnionValues \X UnionTypes)
    \cup (PageValues \X PageTypes)
    \cup (BasicValues \X AllTypes)

NotCalled == [fault |-> FALSE, label |-> "not called"]

\* class TypeChecker defines no __init__ and assigns no attribute of self: the
\* __dict__ of a checker object is empty.
NoAttrs == <<>>
NoFunction == [name |-> "none", annotations |-> <<>>]
NoThreads == <<>>
NotPrinted == <<>>
NoSearch == [pc |-> "idle"]
NoCall == [pc |-> "idle"]

Init ==
    /\ \E input \in Inputs : value = input[1] /\ type_ = input[2]
    /\ alias_named \in BOOLEAN
    /\ checker = "none"
    /\ result = NotCalled
    /\ attrs = NoAttrs
    /\ function = NoFunction
    /\ verdict = "none"
    /\ threads = NoThreads
    /\ seen = {}
    /\ http = NoCall
    /\ search = NoSearch
    /\ printed = NotPrinted

\* Typecheck taking the items out of the mapping it is given, as
\* value.pop("items") in _match_page would.
Typecheck_pops_items ==
    /\ checker = "none"
    /\ checker' = "tests.typechecker"
    /\ result' = typecheck(value, type_)
    /\ value' = IF value.k = "dict" /\ type_.t \in {"page", "cursor_page"}
                THEN DictV(Restrict(value.m, DOMAIN value.m \ {"items"}))
                ELSE value
    /\ UNCHANGED <<type_, alias_named, attrs, function, verdict, threads, seen, printed, search, http>>

\* tests/typechecker.py: TypeChecker().typecheck(value, type_)
Typecheck ==
    /\ checker = "none"
    /\ checker' = "tests.typechecker"
    /\ result' = typecheck(value, type_)
    /\ UNCHANGED <<value, type_, alias_named, attrs, function, verdict, threads, seen, printed, search, http>>

\* type_validation.py: TypeChecker().match(value, type_)
Match ==
    /\ checker = "none"
    /\ checker' = "type_validation"
    /\ result' = match(value, type_)
    /\ UNCHANGED <<value, type_, alias_named, attrs, function, verdict, threads, seen, printed, search, http>>

\* tests/integration/test_non_user_endpoints_types.py:
\* _TypeChecker().match(value, type_)
_TypeChecker_Match ==
    /\ checker = "none"
    /\ checker' = "tests.integration"
    /\ result' = _TypeChecker_match(value, type_)
    /\ UNCHANGED <<value, type_, alias_named, attrs, function, verdict, threads, seen, printed, search, http>>

\* tests/typechecker.py: print(result.pprint()) on the result of the check
Pprint ==
    /\ checker = "tests.typechecker"
    /\ ~result.fault
    /\ printed = NotPrinted
    /\ printed' = pprint(result, 0)
    /\ UNCHANGED <<value, type_, alias_named, checker, result, attrs, function,
                   verdict, threads, seen, search, http>>

Next == Typecheck \/ Match \/ _TypeChecker_Match \/ Pprint

Spec == Init /\ [][Next]_vars

(***************************************************************************)
(* tests/typechecker.py: compare_with_signature, and the helper assertType *)
(* of tests/integration/test_endpoint_types.py that the endpoint tests     *)
(* call with the response and the bound method that produced it.           *)
(***************************************************************************)
AnyType == [t |-> "Any"]
NoType == [t |-> "none"]
OptionalOf(tp) == UnionOf(<<tp, NoneType>>)

\* A function object: its name and its __annotations__, "return" among them
\* when the def has a return annotation.
Method(name, params, returns) ==
    [name |-> name, annotations |-> params @@ ("return" :> returns)]
Unannotated(name, params) == [name |-> name, annotations |-> params]

\* typing.get_type_hints(function): the annotations, with None read as NoneType.
get_type_hints(fn) == fn.annotations

\* compare_with_signature checking against the first annotation it finds.
compare_with_signature_first_hint(v, fn) ==
    LET hints == get_type_hints(fn)
    IN IF DOMAIN hints = {} THEN Raise("KeyError")
       ELSE typecheck(v, hints[CHOOSE k \in DOMAIN hints :
                                   k # "return" \/ DOMAIN hints = {"return"}])

compare_with_signature(v, fn) ==
    LET hints == get_type_hints(fn)
    IN IF "return" \notin DOMAIN hints THEN Raise("KeyError")
       ELSE typecheck(v, hints["return"])

\* assertType: an exception of the checker ends the test in an error, a result
\* with has_errors fails assertFalse, whose message is the rendered result.
assertType(v, fn) ==
    LET res == compare_with_signature(v, fn)
    IN IF res.fault THEN "error"
       ELSE IF res.has_errors THEN "failed"
       ELSE "passed"

\* Methods of spotipy/client.py by the shape of their return annotation; Image
\* and Artist stand for the TypedDict classes the annotations name.
EndpointMethods ==
    {Method("artist", "artist_id" :> Prim("str"), Artist),
     Method("playlist_cover_image", "playlist_id" :> Prim("str"), ListOf(Image)),
     Method("playlist_is_following",
            "playlist_id" :> Prim("str") @@ "user_ids" :> ListOf(Prim("str")),
            ListOf(Prim("bool"))),
     Method("current_user_top_artists",
            "limit" :> Prim("int") @@ "offset" :> Prim("int"), PageOf(Artist)),
     Method("current_user_recently_played",
            "limit" :> Prim("int") @@ "after" :> OptionalOf(Prim("int")),
            CursorPageOf(Image)),
     Method("playlist_items", "playlist_id" :> Prim("str"),
            PageOf(UnionOf(<<Image, Artist>>))),
     Method("audio_analysis", "track_id" :> Prim("str"), AnyType),
     Method("pause_playback", "device_id" :> OptionalOf(Prim("str")), NoneType),
     Unannotated("search_markets", "q" :> Prim("str") @@ "limit" :> Prim("int"))}

ResponseItems == {ListV(<<>>), ListV(<<ImageOk>>), ListV(<<ImageBad>>),
                  ListV(<<ImageOk, ImageBad>>), ListV(<<Scalar("bool")>>),
                  ListV(<<Scalar("bool"), Scalar("int")>>)}
Responses ==
    BasicValues \cup ResponseItems \cup {ImageBad}
    \cup {DictV([key \in fields |-> PageFieldValue(key, items)]) :
            fields \in {PageFields, CursorPageFields, PageFields \ {"total"}},
            items \in ResponseItems}

SignatureInit ==
    /\ value \in Responses
    /\ function \in EndpointMethods
    /\ type_ = NoType
    /\ alias_named \in BOOLEAN
    /\ checker = "none"
    /\ result = NotCalled
    /\ attrs = NoAttrs
    /\ verdict = "none"
    /\ threads = NoThreads
    /\ seen = {}
    /\ http = NoCall
    /\ search = NoSearch
    /\ printed = NotPrinted

\* tests/typechecker.py: TypeChecker().compare_with_signature(value, function)
CompareWithSignature ==
    /\ checker = "none"
    /\ checker' = "compare_with_signature"
    /\ result' = compare_with_signature(value, function)
    /\ UNCHANGED <<value, type_, alias_named, attrs, function, verdict, threads, seen, printed, search, http>>

\* test_endpoint_types.py: self.assertType(value, function)
AssertType ==
    /\ checker = "none"
    /\ checker' = "assertType"
    /\ result' = compare_with_signature(value, function)
    /\ verdict' = assertType(value, function)
    /\ UNCHANGED <<value, type_, alias_named, attrs, function, threads, seen, printed, search, http>>

SignatureNext == CompareWithSignature \/ AssertType

SignatureSpec == SignatureInit /\ [][SignatureNext]_vars

(***************************************************************************)
(* Two threads calling typecheck on one TypeChecker object.  A call runs   *)
(* in its own frame: the locals matches (_match_list) and children         *)
(* (_match_union) and the position i of the loop.  A step is one pass      *)
(* through the loop of the outermost list or union, or the whole call for  *)
(* the other types; the threads take their steps in any order.  overlap    *)
(* records that the other thread took a step while this call was under way.*)
(***************************************************************************)
Threads == {"t1", "t2"}
IdleFrame == [pc |-> "idle"]
NewFrame(v, tp) ==
    [pc |-> "running", value |-> v, type_ |-> tp, i |-> 1,
     matches |-> <<>>, children |-> <<>>, overlap |-> FALSE, result |-> NotCalled]
Finish(f, r) == [f EXCEPT !.pc = "done", !.result = r]

StepFrame(f) ==
    LET branch == TypeCheckerDispatch(f.value, f.type_)
    IN IF branch = "list" /\ f.value.k = "list"
       THEN IF f.i <= Len(f.value.items)
            THEN LET outcome == typecheck(f.value.items[f.i], f.type_.elem)
                 IN IF outcome.fault THEN Finish(f, outcome)
                    ELSE [f EXCEPT !.i = f.i + 1,
                                   !.matches = Append(f.matches, outcome)]
            ELSE LET error_matches == SelectSeq(f.matches, LAMBDA m : m.has_errors)
                 IN IF error_matches # <<>>
                    THEN Finish(f, _TypeCheckingResult("list",
                             <<OutOfMsg(Len(error_matches), Len(f.value.items))>>,
                             DictChildren("first error" :> error_matches[1])))
                    ELSE Finish(f, _TypeCheckingResult("list", <<>>, NoChildren))
       ELSE IF branch = "union"
       THEN IF f.i <= Len(f.type_.alts)
            THEN LET tp == f.type_.alts[f.i]
                     outcome == typecheck(f.value, tp)
                 IN IF outcome.fault THEN Finish(f, outcome)
                    ELSE IF ~outcome.has_errors
                    THEN Finish(f, _TypeCheckingResult("union", <<>>, NoChildren))
                    ELSE IF ~HasName(tp) THEN Finish(f, Raise("AttributeError"))
                    ELSE [f EXCEPT !.i = f.i + 1,
                                   !.children = Put(f.children, NameOf(tp), outcome)]
            ELSE Finish(f, _TypeCheckingResult("union", <<NoneMatchedMsg>>,
                                               DictChildren(f.children)))
       ELSE Finish(f, typecheck(f.value, f.type_))

\* The other threads' frames after thread t has taken a step.
Overlapped(t, u) ==
    IF u # t /\ threads[u].pc = "running" /\ threads[u].i > 1
    THEN [threads[u] EXCEPT !.overlap = TRUE] ELSE threads[u]

ThreadInputs ==
    {<<ListV(<<Scalar("int"), Scalar("str")>>), ListOf(Prim("int"))>>,
     <<ListV(<<ImageBad, Scalar("str")>>), ListOf(Image)>>,
     <<Scalar("str"), UnionOf(<<Prim("int"), Prim("str")>>)>>,
     <<Scalar("null"), UnionOf(<<ListOf(Prim("int")), ListOf(Prim("str"))>>)>>,
     <<ImageBad, UnionOf(<<Image, Prim("int")>>)>>,
     <<ImageOk, Image>>}

ThreadsInit ==
    /\ threads = [t \in Threads |-> IdleFrame]
    /\ seen = {}
    /\ http = NoCall
    /\ search = NoSearch
    /\ printed = NotPrinted
    /\ attrs = NoAttrs
    /\ alias_named \in BOOLEAN
    /\ value = Scalar("null")
    /\ type_ = NoType
    /\ checker = "none"
    /\ result = NotCalled
    /\ function = NoFunction
    /\ verdict = "none"

\* Thread t calls typecheck(value, type_) on the shared checker.
Call(t) ==
    /\ threads[t].pc = "idle"
    /\ \E input \in ThreadInputs :
           threads' = [threads EXCEPT ![t] = NewFrame(input[1], input[2])]
    /\ UNCHANGED <<value, type_, alias_named, checker, result, attrs, function,
                   verdict, seen, printed, search, http>>

\* Step with the locals of the loops kept on the checker object instead
\* (self.matches, self.children), emptied when a loop starts.
Step_locals_on_self(t) ==
    /\ threads[t].pc = "running"
    /\ LET f == threads[t]
           fresh == f.i = 1 \/ DOMAIN attrs = {}
           g == StepFrame([f EXCEPT
                    !.matches = IF fresh THEN <<>> ELSE attrs["matches"],
                    !.children = IF fresh THEN <<>> ELSE attrs["children"]])
       IN /\ threads' = [u \in Threads |-> IF u = t THEN g ELSE Overlapped(t, u)]
          /\ attrs' = [x \in {"matches", "children"} |-> g[x]]
    /\ UNCHANGED <<value, type_, alias_named, checker, result, function,
                   verdict, seen, printed, search, http>>

\* Step with the locals of the loops kept on the checker object and never
\* emptied: what one call collected is still there in the next.
Step_locals_never_emptied(t) ==
    /\ threads[t].pc = "running"
    /\ LET f == threads[t]
           fresh == DOMAIN attrs = {}
           g == StepFrame([f EXCEPT
                    !.matches = IF fresh THEN <<>> ELSE attrs["matches"],
                    !.children = IF fresh THEN <<>> ELSE attrs["children"]])
       IN /\ threads' = [u \in Threads |-> IF u = t THEN g ELSE Overlapped(t, u)]
          /\ attrs' = [x \in {"matches", "children"} |-> g[x]]
    /\ UNCHANGED <<value, type_, alias_named, checker, result, function,
                   verdict, seen, printed, search, http>>

\* Thread t takes the next step of its call.
Step(t) ==
    /\ threads[t].pc = "running"
    /\ threads' = [u \in Threads |->
                      IF u = t THEN StepFrame(threads[t]) ELSE Overlapped(t, u)]
    /\ UNCHANGED <<value, type_, alias_named, checker, result, attrs, function,
                   verdict, seen, printed, search, http>>

\* The call of thread t returns or raises to its caller.
Return(t) ==
    /\ threads[t].pc = "done"
    /\ seen' = seen \cup {[value |-> threads[t].value, type_ |-> threads[t].type_,
                           result |-> threads[t].result]}
    /\ threads' = [threads EXCEPT ![t] = IdleFrame]
    /\ UNCHANGED <<value, type_, alias_named, checker, result, attrs, function,
                   verdict, printed, search, http>>

ThreadsNext == \E t \in Threads : Call(t) \/ Step(t) \/ Return(t)

ThreadsSpec == ThreadsInit /\ [][ThreadsNext]_vars

(***************************************************************************)
(* spotipy/client.py: Spotify.search_markets and _search_multiple_markets. *)
(* A search sends one request per market, and each request is answered by  *)
(* the server with a number of items of the first type, or ends in an      *)
(* exception.  total = 0 stands for a total that is not given (None, or 0: *)
(* the code tests "if total").  requests is the history of the requests    *)
(* sent: the market, the limit asked for and the number of items received. *)
(***************************************************************************)
MaxLimit == 2
MaxTotal == 3
MaxMarkets == 2

\* The first codes of the list Spotify.country_codes.
country_codes == <<"AD", "AR", "AU">>

Limits == 1..MaxLimit
Totals == 0..MaxTotal
MarketArgs ==
    {[kind |-> "none"], [kind |-> "str"]}
    \cup {[kind |-> "list", codes |-> c] : c \in SeqsUpTo({"US", "CA"}, MaxMarkets)}
\* What the server may answer: more items than asked for included.
ItemCounts == 0..(MaxLimit + 1)

\* search_markets up to the first pass of the loop of _search_multiple_markets.
search_markets(limit, markets, total) ==
    LET given == IF markets.kind = "none" \/ (markets.kind = "list" /\ markets.codes = <<>>)
                 THEN [kind |-> "list", codes |-> country_codes] ELSE markets
        listed == IF given.kind = "list" THEN given.codes ELSE <<>>
        adjusted == IF total # 0 /\ limit > total THEN total ELSE limit
    IN [pc |-> IF listed = <<>> THEN "returned" ELSE "loop",
        limit |-> adjusted, total |-> total, markets |-> listed,
        count |-> 0, requests |-> <<>>, results |-> <<>>]

\* One pass of the loop without the adjustment of limit at its end.
_search_multiple_markets_never_adjusts(s, items) ==
    LET country == s.markets[Len(s.requests) + 1]
        sent == Append(s.requests,
                       [market |-> country, limit |-> s.limit, items |-> items])
        count == s.count + items
        last == Len(sent) = Len(s.markets)
    IN IF s.total # 0 /\ count >= s.total
       THEN [s EXCEPT !.pc = "returned", !.requests = sent, !.count = count,
                      !.results = Put(s.results, country, items)]
       ELSE [s EXCEPT !.pc = IF last THEN "returned" ELSE "loop",
                      !.requests = sent, !.count = count,
                      !.results = Put(s.results, country, items)]

\* One pass of the loop: the request for the next market, answered with
\* items items of the first type.
_search_multiple_markets(s, items) ==
    LET country == s.markets[Len(s.requests) + 1]
        sent == Append(s.requests,
                       [market |-> country, limit |-> s.limit, items |-> items])
        count == s.count + items
        last == Len(sent) = Len(s.markets)
    IN IF s.total # 0 /\ count >= s.total
       THEN [s EXCEPT !.pc = "returned", !.requests = sent, !.count = count,
                      !.results = Put(s.results, country, items)]
       ELSE [s EXCEPT !.pc = IF last THEN "returned" ELSE "loop",
                      !.limit = IF s.total # 0 /\ s.limit > s.total - count
                                THEN s.total - count ELSE s.limit,
                      !.requests = sent, !.count = count,
                      !.results = Put(s.results, country, items)]

SearchInit ==
    /\ search = NoSearch
    /\ http = NoCall
    /\ threads = NoThreads
    /\ seen = {}
    /\ printed = NotPrinted
    /\ attrs = NoAttrs
    /\ alias_named = TRUE
    /\ value = Scalar("null")
    /\ type_ = NoType
    /\ checker = "none"
    /\ result = NotCalled
    /\ function = NoFunction
    /\ verdict = "none"

\* sp.search_markets(q, limit, offset, type, markets, total)
SearchMarkets ==
    /\ search.pc = "idle"
    /\ \E limit \in Limits, total \in Totals, markets \in MarketArgs :
           search' = search_markets(limit, markets, total)
    /\ UNCHANGED <<value, type_, alias_named, checker, result, attrs, function,
                   verdict, threads, seen, printed, http>>

\* The request for the next market is answered and the loop goes on or ends.
SearchRequest ==
    /\ search.pc = "loop"
    /\ \E items \in ItemCounts : search' = _search_multiple_markets(search, items)
    /\ UNCHANGED <<value, type_, alias_named, checker, result, attrs, function,
                   verdict, threads, seen, printed, http>>

\* The request for the next market raises (SpotifyException from _get, or
\* TypeError on a response without the items): the search ends there.
SearchRaises ==
    /\ search.pc = "loop"
    /\ search' = [search EXCEPT
                     !.pc = "raised",
                     !.requests = Append(search.requests,
                         [market |-> search.markets[Len(search.requests) + 1],
                          limit |-> search.limit, items |-> 0])]
    /\ UNCHANGED <<value, type_, alias_named, checker, result, attrs, function,
                   verdict, threads, seen, printed, http>>

SearchNext == SearchMarkets \/ SearchRequest \/ SearchRaises

SearchSpec == SearchInit /\ [][SearchNext]_vars

(***************************************************************************)
(* spotipy/client.py: Spotify._internal_call.  The call hands the request  *)
(* to the session and waits; the session answers with a response (a status *)
(* and a body), or raises.  A session built by _build_session retries the  *)
(* statuses of default_retry_codes and raises RetryError when its retries  *)
(* are used up; requests.api and a session of the caller's do not retry.   *)
(***************************************************************************)
max_retries == 3
default_retry_codes == {429, 500, 502, 503, 504}

Methods == {"GET", "POST", "PUT", "DELETE"}
Statuses == {200, 204, 400, 404, 429, 500}

\* Bodies: text that is not JSON (an empty body included), or a JSON value.
\* The field "error" of an object is absent, a string, or an object that may
\* hold "message" and "reason".
NotJson == [kind |-> "text"]
JsonNull == [kind |-> "null"]
JsonList == [kind |-> "list"]
JsonObject(error) == [kind |-> "object", error |-> error]
NoError == [kind |-> "absent"]
ErrorString == [kind |-> "string"]
ErrorObject(fields) == [kind |-> "object", fields |-> fields]
Bodies ==
    {NotJson, JsonNull, JsonList, JsonObject(NoError), JsonObject(ErrorString)}
    \cup {JsonObject(ErrorObject(fs)) : fs \in SUBSET {"message", "reason"}}

\* What session.request and response.raise_for_status may raise besides:
\* InvalidURL is a ValueError, the two others are not.
SessionErrors == {"ConnectionError", "Timeout", "InvalidURL"}
IsValueError(exc) == exc = "InvalidURL"

Response(status, body) == [kind |-> "response", status |-> status, body |-> body]
RetryError == [kind |-> "RetryError"]
SessionError(exc) == [kind |-> "exception", exc |-> exc]

None == [kind |-> "None"]
Returned(results) == [kind |-> "returned", results |-> results]
Propagates(exc) == [kind |-> "raised", exc |-> exc]
SpotifyException(http_status, code, msg, reason) ==
    [kind |-> "raised", exc |-> "SpotifyException", http_status |-> http_status,
     code |-> code, msg |-> msg, reason |-> reason]

\* response.json()["error"][key] in the handler of HTTPError: the value, the
\* default on ValueError and KeyError, or the exception that is not caught.
ErrorField(body, key, default) ==
    CASE body.kind = "text" -> [fault |-> FALSE, v |-> default]
      [] body.kind \in {"null", "list"} -> Raise("TypeError")
      [] body.error.kind = "absent" -> [fault |-> FALSE, v |-> default]
      [] body.error.kind = "string" -> Raise("TypeError")
      [] key \in body.error.fields -> [fault |-> FALSE, v |-> key]
      [] OTHER -> [fault |-> FALSE, v |-> default]

\* The try statement of _internal_call on what the session did.
_internal_call(reply) ==
    CASE reply.kind = "response" /\ reply.status >= 400 ->
            LET msg == ErrorField(reply.body, "message", "error")
                reason == ErrorField(reply.body, "reason", "None")
            IN IF msg.fault THEN Propagates(msg.exc)
               ELSE IF reason.fault THEN Propagates(reason.exc)
               ELSE SpotifyException(reply.status, -1, msg.v, reason.v)
      [] reply.kind = "response" ->
            IF reply.body.kind = "text" THEN Returned(None)
            ELSE Returned(reply.body)
      [] reply.kind = "RetryError" ->
            SpotifyException(429, -1, "Max Retries", "ResponseError")
      [] OTHER ->
            IF IsValueError(reply.exc) THEN Returned(None)
            ELSE Propagates(reply.exc)

HttpInit ==
    /\ http = NoCall
    /\ search = NoSearch
    /\ threads = NoThreads
    /\ seen = {}
    /\ printed = NotPrinted
    /\ attrs = NoAttrs
    /\ alias_named = TRUE
    /\ value = Scalar("null")
    /\ type_ = NoType
    /\ checker = "none"
    /\ result = NotCalled
    /\ function = NoFunction
    /\ verdict = "none"

\* self._internal_call(method, url, payload, params) up to session.request,
\* on a client whose session retries or does not.
InternalCall ==
    /\ http.pc = "idle"
    /\ \E method \in Methods, retrying \in BOOLEAN :
           http' = [pc |-> "waiting", method |-> method, retrying |-> retrying,
                    attempts |-> 0]
    /\ UNCHANGED <<value, type_, alias_named, checker, result, attrs, function,
                   verdict, threads, seen, printed, search>>

\* The server answers.  A retrying session sends the request again on a
\* status of the force list, and gives up with RetryError after max_retries.
Respond ==
    /\ http.pc = "waiting"
    /\ \E status \in Statuses, body \in Bodies :
           IF http.retrying /\ status \in default_retry_codes
           THEN IF http.attempts < max_retries
                THEN http' = [http EXCEPT !.attempts = http.attempts + 1]
                ELSE http' = [pc |-> "done", method |-> http.method,
                              retrying |-> http.retrying,
                              attempts |-> http.attempts,
                              reply |-> RetryError,
                              outcome |-> _internal_call(RetryError)]
           ELSE http' = [pc |-> "done", method |-> http.method,
                         retrying |-> http.retrying, attempts |-> http.attempts,
                         reply |-> Response(status, body),
                         outcome |-> _internal_call(Response(status, body))]
    /\ UNCHANGED <<value, type_, alias_named, checker, result, attrs, function,
                   verdict, threads, seen, printed, search>>

\* The session raises without a response: no connection, no answer in time,
\* or a URL it cannot send.
SessionRaises ==
    /\ http.pc = "waiting"
    /\ \E exc \in SessionErrors :
           http' = [pc |-> "done", method |-> http.method,
                    retrying |-> http.retrying, attempts |-> http.attempts,
                    reply |-> SessionError(exc),
                    outcome |-> _internal_call(SessionError(exc))]
    /\ UNCHANGED <<value, type_, alias_named, checker, result, attrs, function,
                   verdict, threads, seen, printed, search>>

HttpNext == InternalCall \/ Respond \/ SessionRaises

HttpSpec == HttpInit /\ [][HttpNext]_vars

(***************************************************************************)
(* Vocabulary of the properties below.                                     *)
(***************************************************************************)
Done == checker = "tests.typechecker"
Passes(r) == ~r.fault /\ ~r.has_errors
Range(s) == {s[i] : i \in DOMAIN s}
ChildMap(r) == IF r.children.kind = "dict" THEN r.children.map ELSE <<>>
NamedKeys(msgs) == UNION {msgs[i].keys : i \in DOMAIN msgs}
KnownVariant(tp) == tp.t # "NoneType"

\* The call checked a mapping against a record: a TypedDict or a raw mapping.
RecordCheck ==
    /\ Done
    /\ value.k = "dict"
    /\ TypeCheckerDispatch(value, type_) \in {"dict", "typeddict"}
Keys == DOMAIN value.m
Hints == IF type_.t = "dict" THEN type_.fields ELSE type_.hints
Required == IF type_.t = "dict" THEN DOMAIN type_.fields ELSE RequiredKeys(type_)
Optional == IF type_.t = "dict" THEN {} ELSE OptionalKeys(type_)
Missing == Required \ Keys
Undeclared == Keys \ DOMAIN Hints
Present == Keys \cap DOMAIN Hints
FieldCheck(f) == typecheck(value.m[f], Hints[f])
Failing == {f \in Present : FieldCheck(f).has_errors}
Restricted == DictV(Restrict(value.m, Present))

\* The call checked a mapping against Page[item] or CursorPage[item].
PageCheck == Done /\ value.k = "dict" /\ type_.t \in {"page", "cursor_page"}
FixedFields == IF type_.t = "page" THEN PageFields ELSE CursorPageFields
ExtraKeys == Keys \ FixedFields
AbsentFields == FixedFields \ Keys

\* The nodes stored as children of a result node, and every node of a tree.
ChildrenOf(n) ==
    CASE n.children.kind = "single" -> {n.children.node}
      [] n.children.kind = "dict" -> Range(n.children.map)
      [] OTHER -> {}
RECURSIVE Nodes(_)
Nodes(r) == {r} \cup UNION {Nodes(c) : c \in ChildrenOf(r)}
Stored(r) == Nodes(r) \ {r}

(***************************************************************************)
(* C1: for every primitive kind K and value V, the check of V against      *)
(* Primitive(K) has errors exactly when the runtime kind of V differs from *)
(* K; no coercion, so a boolean fails an integer check.                    *)
(***************************************************************************)
C1_PrimitiveExactKind ==
    (Done /\ type_.t = "prim") =>
        /\ ~result.fault
        /\ result.has_errors = (value.k # type_.kind)

C5_UnionPassesIffSomeAlternative ==
    (/\ Done
     /\ type_.t = "union"
     /\ alias_named
     /\ \A i \in DOMAIN type_.alts : KnownVariant(type_.alts[i])) =>
        (Passes(result) <=>
            \E i \in DOMAIN type_.alts : Passes(typecheck(value, type_.alts[i])))

(***************************************************************************)
(* C6: when the check against every alternative of a union returns a       *)
(* failing result, the union's result carries the single message "none     *)
(* matched" and its children hold one entry per alternative, keyed by the  *)
(* alternative's name and equal to that alternative's failing result       *)
(* (stated for an interpreter on which every alternative has a __name__).  *)
(***************************************************************************)
C6_UnionFailureListsEveryAlternative ==
    (/\ Done
     /\ type_.t = "union"
     /\ alias_named
     /\ \A i \in DOMAIN type_.alts :
            LET r == typecheck(value, type_.alts[i]) IN ~r.fault /\ r.has_errors) =>
        /\ ~result.fault
        /\ result.error_messages = <<NoneMatchedMsg>>
        /\ Cardinality(DOMAIN ChildMap(result)) = Len(type_.alts)
        /\ \A i \in DOMAIN type_.alts :
              /\ NameOf(type_.alts[i]) \in DOMAIN ChildMap(result)
              /\ ChildMap(result)[NameOf(type_.alts[i])] = typecheck(value, type_.alts[i])

(***************************************************************************)
(* C7: for a list of N elements checked against ListOf(E), E of known      *)
(* variants, of which K do not pass E: when K > 0 the result has the one   *)
(* message "K out of N" and the only child "first error", equal to the     *)
(* check of the lowest-index failing element; when K = 0 it has no errors  *)
(* and no children.                                                        *)
(***************************************************************************)
C7_ListReportsCountAndFirstError ==
    (Done /\ type_.t = "list" /\ value.k = "list" /\ KnownVariant(type_.elem)) =>
        LET n == Len(value.items)
            bad == {i \in 1..n : ~Passes(typecheck(value.items[i], type_.elem))}
        IN /\ ~result.fault
           /\ IF bad # {}
              THEN /\ result.error_messages = <<OutOfMsg(Cardinality(bad), n)>>
                   /\ result.children = DictChildren(
                          "first error" :> typecheck(value.items[MinOf(bad)], type_.elem))
              ELSE /\ result.error_messages = <<>>
                   /\ result.children = NoChildren
                   /\ ~result.has_errors

(***************************************************************************)
(* C8: a value that is not a sequence, checked against ListOf(E) by either *)
(* copy of the checker, gives a result with the one message "not a list"   *)
(* and no children; the check neither raises nor iterates over the value.  *)
(***************************************************************************)
C8_NotAListIsReported ==
    (checker # "none" /\ type_.t = "list" /\ value.k # "list") =>
        /\ ~result.fault
        /\ result.error_messages = <<NotAListMsg>>
        /\ result.children = NoChildren

(***************************************************************************)
(* C9: a mapping passes Page(item) or CursorPage(item) if and only if its  *)
(* key set is exactly the fixed field set of the page kind and its items   *)
(* value passes ListOf(item).                                              *)
(***************************************************************************)
C9_PagePassesIffExactKeysAndItems ==
    PageCheck =>
        (Passes(result) <=>
            /\ Keys = FixedFields
            /\ Passes(typecheck(value.m["items"], ListOf(type_.item))))

C9_Witness ==
    /\ PageCheck
    /\ Keys = FixedFields
    /\ value.m["items"].k = "list"
    /\ Len(value.m["items"].items) >= 2
    /\ Passes(result)

(***************************************************************************)
(* C10: a mapping checked against Page/CursorPage with keys outside the    *)
(* fixed field set gets an "Unrecognized keys" message naming exactly      *)
(* those keys; one lacking fixed fields gets a "Missing required key"      *)
(* message naming exactly the absent fields; with both, both messages are  *)
(* in the same result; and these are all its messages.                     *)
(***************************************************************************)
C10_PageKeyErrorsNameExactKeys ==
    (PageCheck /\ (ExtraKeys # {} \/ AbsentFields # {})) =>
        /\ ~result.fault
        /\ ExtraKeys # {} => UnrecognizedMsg(ExtraKeys) \in Range(result.error_messages)
        /\ AbsentFields # {} => MissingKeyMsg(AbsentFields) \in Range(result.error_messages)
        /\ Len(result.error_messages) =
               (IF ExtraKeys # {} THEN 1 ELSE 0) + (IF AbsentFields # {} THEN 1 ELSE 0)

C10_Witness ==
    /\ PageCheck
    /\ Cardinality(ExtraKeys) >= 2
    /\ Cardinality(AbsentFields) >= 2
    /\ Len(result.error_messages) = 2

(***************************************************************************)
(* C11: when the comparison of the fields of a Page/CursorPage fails (a    *)
(* key outside the fixed field set, or a fixed field absent), the result   *)
(* has no children and every one of its messages is a message about keys:  *)
(* the items are not looked at, whatever they hold.                        *)
(***************************************************************************)
C11_FieldSetFailureStopsBeforeItems ==
    (PageCheck /\ (ExtraKeys # {} \/ AbsentFields # {})) =>
        /\ ~result.fault
        /\ result.has_errors
        /\ result.children = NoChildren
        /\ \A msg \in Range(result.error_messages) :
               msg \in {UnrecognizedMsg(ExtraKeys), MissingKeyMsg(AbsentFields)}

C11_Witness ==
    /\ PageCheck
    /\ ExtraKeys # {}
    /\ "items" \in Keys
    /\ value.m["items"].k = "list"
    /\ \E i \in DOMAIN value.m["items"].items :
           ~Passes(typecheck(value.m["items"].items[i], type_.item))
    /\ ~result.fault
    /\ result.children = NoChildren

(***************************************************************************)
(* C12: in every result tree returned by a check, every node has           *)
(* has_errors true exactly when its own error messages are non-empty, or   *)
(* its children is a single node with has_errors true, or its children is  *)
(* a mapping holding at least one node with has_errors true.               *)
(***************************************************************************)
C12_HasErrorsDerivedAtEveryNode ==
    (Done /\ ~result.fault) =>
        \A n \in Nodes(result) :
            n.has_errors <=>
                \/ n.error_messages # <<>>
                \/ n.children.kind = "single" /\ n.children.node.has_errors
                \/ /\ n.children.kind = "dict"
                   /\ \E f \in DOMAIN n.children.map : n.children.map[f].has_errors

\* A page whose only failure is two levels down, in an element of its items.
C12_Witness ==
    /\ PageCheck
    /\ ~result.fault
    /\ result.has_errors
    /\ result.error_messages = <<>>
    /\ result.children.kind = "single"
    /\ result.children.node.children.kind = "dict"
    /\ Cardinality(Nodes(result)) >= 4

(***************************************************************************)
(* C13 as stated: in every result tree returned by a check, every node     *)
(* stored under children, at any depth, has has_errors true.               *)
(***************************************************************************)
C13_OnlyFailingChildrenStored ==
    (Done /\ ~result.fault) => \A c \in Stored(result) : c.has_errors

(***************************************************************************)
(* C13 amended: in every result tree returned by a check, the children     *)
(* stored by a list, a union and a field-mapping node all have has_errors  *)
(* true.  A passing node is stored in two places only: as the single child *)
(* of a page node, which is the check of its items whenever the comparison *)
(* of the fields succeeded, and as a group "required" or "optional" of a   *)
(* TypedDict node, which always holds "required", and "optional" when the  *)
(* TypedDict has optional fields.                                          *)
(***************************************************************************)
C13_PassingChildrenOnlyItemsAndGroups ==
    (Done /\ ~result.fault) =>
        /\ \A n \in Nodes(result) : \A c \in ChildrenOf(n) :
               \/ c.has_errors
               \/ n.label \in {"page", "cursor_page"} /\ c.label = "list"
               \/ /\ n.label \notin {"primitive", "list", "union", "dict",
                                     "page", "cursor_page"}
                  /\ c.label = "dict"
        /\ (PageCheck /\ Keys = FixedFields) =>
               result.children =
                   SingleChild(typecheck(value.m["items"], ListOf(type_.item)))
        /\ (RecordCheck /\ type_.t = "typeddict") =>
               DOMAIN ChildMap(result) =
                   {"required"} \cup (IF Optional # {} THEN {"optional"} ELSE {})

\* A TypedDict result that stores a passing group beside one that stores the
\* failing fields alone, while a declared field of the mapping passes.
C13_Witness ==
    /\ RecordCheck
    /\ type_.t = "typeddict"
    /\ ~result.fault
    /\ \E c \in Stored(result) : ~c.has_errors
    /\ \E f \in Present : Passes(FieldCheck(f))
    /\ Failing # {}
    /\ \A n \in Nodes(result) : n.label = "dict" =>
           \A c \in ChildrenOf(n) : c.has_errors

(***************************************************************************)
(* Type descriptions built only from the known variants: primitives,       *)
(* TypedDicts with at least one field, lists, unions and pages of such.    *)
(***************************************************************************)
RECURSIVE WellFormed(_)
WellFormed(tp) ==
    CASE tp.t = "prim" -> TRUE
      [] tp.t = "list" -> WellFormed(tp.elem)
      [] tp.t = "union" -> \A i \in DOMAIN tp.alts : WellFormed(tp.alts[i])
      [] tp.t \in {"page", "cursor_page"} -> WellFormed(tp.item)
      [] tp.t = "typeddict" ->
            /\ DOMAIN tp.hints # {}
            /\ \A f \in DOMAIN tp.hints : WellFormed(tp.hints[f])
      [] OTHER -> FALSE

(***************************************************************************)
(* C14: for every value and every type description built only from the     *)
(* known variants, the check returns a result tree and never raises        *)
(* (stated for an interpreter on which every alternative has a __name__).  *)
(***************************************************************************)
C14_NeverRaisesOnKnownVariants ==
    (Done /\ alias_named /\ WellFormed(type_)) => ~result.fault

(***************************************************************************)
(* Whether the check of v against tp gets to call the dispatcher with a    *)
(* type description of no known variant: at the root, or in a sub-check    *)
(* that is made before any other has raised.  Elements and alternatives    *)
(* are visited in order, the fields of one mapping in any order, the       *)
(* required fields of a TypedDict before its optional ones.                *)
(***************************************************************************)
RECURSIVE Visits(_, _)
Visits(v, tp) ==
    LET branch == TypeCheckerDispatch(v, tp)
    IN CASE branch = "ValueError" -> TRUE
         [] branch = "primitive" -> FALSE
         [] branch = "dict" ->
               \E f \in DOMAIN v.m \cap DOMAIN tp.fields :
                   Visits(v.m[f], tp.fields[f])
         [] branch = "list" ->
               /\ v.k = "list"
               /\ \E i \in DOMAIN v.items :
                     /\ Visits(v.items[i], tp.elem)
                     /\ \A j \in 1..(i - 1) : ~typecheck(v.items[j], tp.elem).fault
         [] branch = "union" ->
               \E i \in DOMAIN tp.alts :
                   /\ Visits(v, tp.alts[i])
                   /\ \A j \in 1..(i - 1) :
                         LET r == typecheck(v, tp.alts[j])
                         IN ~r.fault /\ r.has_errors /\ HasName(tp.alts[j])
         [] branch = "page" ->
               /\ v.k = "dict"
               /\ DOMAIN v.m = (IF tp.t = "page" THEN PageFields ELSE CursorPageFields)
               /\ Visits(v.m["items"], ListOf(tp.item))
         [] branch = "typeddict" ->
               /\ v.k = "dict"
               /\ \/ \E f \in DOMAIN v.m \cap RequiredKeys(tp) :
                         Visits(v.m[f], tp.hints[f])
                  \/ /\ ~_match_dict(v, Restrict(tp.hints, RequiredKeys(tp)), FALSE).fault
                     /\ \E f \in DOMAIN v.m \cap OptionalKeys(tp) :
                           Visits(v.m[f], tp.hints[f])

SubCheckFails ==
    \/ /\ type_.t = "list" /\ value.k = "list"
       /\ \E i \in DOMAIN value.items :
             LET r == typecheck(value.items[i], type_.elem)
             IN /\ ~r.fault /\ r.has_errors
                /\ \A j \in 1..(i - 1) : ~typecheck(value.items[j], type_.elem).fault
    \/ /\ RecordCheck
       /\ \E f \in Present :
             /\ ~FieldCheck(f).fault /\ FieldCheck(f).has_errors
             /\ \A g \in Present \ {f} :
                   FieldCheck(g).fault => (f \in Required /\ g \in Optional)
    \/ /\ PageCheck /\ Keys = FixedFields
       /\ LET r == typecheck(value.m["items"], ListOf(type_.item))
          IN ~r.fault /\ r.has_errors

(***************************************************************************)
(* C16: whenever a sub-check made during a check of a type built from the  *)
(* known variants (a record field, a list element, a page's items) returns *)
(* a failing result, the check returns a result with has_errors true.      *)
(***************************************************************************)
C16_SubCheckFailureFailsRoot ==
    (Done /\ alias_named /\ WellFormed(type_) /\ SubCheckFails) =>
        (~result.fault /\ result.has_errors)

(***************************************************************************)
(* The checks completed so far: those returned to their callers and those  *)
(* whose last step has been taken.                                         *)
(***************************************************************************)
Completed ==
    seen \cup {[value |-> threads[t].value, type_ |-> threads[t].type_,
                result |-> threads[t].result] :
                  t \in {u \in Threads : threads[u].pc = "done"}}

(***************************************************************************)
(* C17: two checks of the same value against the same type description on  *)
(* one checker, whatever other checks are made before, between or during   *)
(* them, end in equal outcomes: equal result trees, or the same exception. *)
(***************************************************************************)
C17_SameCheckSameResult ==
    \A p, q \in Completed :
        (p.value = q.value /\ p.type_ = q.type_) => p.result = q.result

\* A check has just been completed that had been completed before, with a
\* different check completed as well.
C17_Witness ==
    \E t \in Threads :
        /\ threads[t].pc = "done"
        /\ ~threads[t].result.fault
        /\ threads[t].result.has_errors
        /\ \E p \in seen : p.value = threads[t].value /\ p.type_ = threads[t].type_
        /\ \E q \in seen : q.value # threads[t].value

(***************************************************************************)
(* C18: under every interleaving of the steps of two checks, each check    *)
(* holds at every step what it would hold when run alone (the outcomes of  *)
(* the elements or alternatives before its position, in order) and ends in *)
(* the outcome of the same check run alone.                                *)
(***************************************************************************)
C18_InterleavedCheckAsAlone ==
    \A t \in Threads :
        LET f == threads[t]
        IN /\ f.pc = "done" => f.result = typecheck(f.value, f.type_)
           /\ (f.pc = "running" /\ f.type_.t = "list") =>
                  f.matches = [j \in 1..(f.i - 1) |->
                                  typecheck(f.value.items[j], f.type_.elem)]
           /\ (f.pc = "running" /\ f.type_.t = "union") =>
                  /\ \A j \in 1..(f.i - 1) :
                         f.children[NameOf(f.type_.alts[j])].has_errors
                  /\ DOMAIN f.children = {NameOf(f.type_.alts[j]) : j \in 1..(f.i - 1)}

\* A failing list check has ended whose steps were interleaved with those of
\* the other thread, which is in the middle of its own loop.
C18_Witness ==
    /\ threads["t1"].pc = "done"
    /\ threads["t1"].overlap
    /\ threads["t1"].type_.t = "list"
    /\ ~threads["t1"].result.fault
    /\ threads["t1"].result.has_errors
    /\ threads["t2"].pc = "running"
    /\ threads["t2"].i > 1
    /\ threads["t2"].overlap

(***************************************************************************)
(* C19: a call of either checker, whether it returns or raises, leaves the *)
(* value, the type description and the attributes of the checker object    *)
(* as they were before the call.                                           *)
(***************************************************************************)
C19_CheckLeavesInputsAndCheckerUnchanged ==
    [][(checker = "none" /\ checker' # "none") =>
           (value' = value /\ type_' = type_ /\ attrs' = attrs)]_vars

\* A call that went through a page mapping down to its items, and one that
\* raised, with the inputs and the checker as they were.
C19_Witness ==
    /\ PageCheck
    /\ Keys = FixedFields
    /\ value.m["items"].k = "list"
    /\ value.m["items"].items # <<>>
    /\ result.fault
    /\ attrs = NoAttrs

(***************************************************************************)
(* C20: for a method with a declared return type T, compare_with_signature *)
(* gives exactly the outcome of typecheck(value, T), and assertType passes *)
(* exactly when that outcome is a result with has_errors false.            *)
(***************************************************************************)
C20_SignatureCheckIsCheckOfReturnType ==
    "return" \in DOMAIN function.annotations =>
        LET T == function.annotations["return"]
        IN /\ checker = "compare_with_signature" => result = typecheck(value, T)
           /\ checker = "assertType" =>
                  (verdict = "passed" <=> Passes(typecheck(value, T)))

C20_Witness ==
    /\ checker = "assertType"
    /\ function.name = "playlist_items"
    /\ value.k = "dict"
    /\ DOMAIN value.m = PageFields
    /\ value.m["items"].items # <<>>
    /\ verdict = "passed"

(***************************************************************************)
(* The nodes pprint gets to: the root, and the failing children of the     *)
(* nodes it gets to.  LineCount is the number of lines they account for:   *)
(* a label and the node's messages, a pair of braces around the failing    *)
(* entries of a mapping, and a "field:" line before each of them.          *)
(***************************************************************************)
RECURSIVE Shown(_)
Shown(r) == {r} \cup UNION {Shown(c) : c \in {x \in ChildrenOf(r) : x.has_errors}}

RECURSIVE LineCount(_)
RECURSIVE EntryLines(_, _)
EntryLines(map, S) ==
    IF S = {} THEN 0
    ELSE LET f == CHOOSE x \in S : TRUE
         IN 1 + LineCount(map[f]) + EntryLines(map, S \ {f})
LineCount(n) ==
    1 + Len(n.error_messages)
      + (IF n.children.kind = "dict"
         THEN LET bad == {f \in DOMAIN n.children.map : n.children.map[f].has_errors}
              IN IF bad = {} THEN 0 ELSE 2 + EntryLines(n.children.map, bad)
         ELSE IF n.children.kind = "single" /\ n.children.node.has_errors
         THEN LineCount(n.children.node)
         ELSE 0)

(***************************************************************************)
(* C21: the rendering of a result tree starts with the root's label; for   *)
(* every node reached through failing children it has the node's label in  *)
(* brackets followed by one bulleted line per message of the node, in      *)
(* order and two spaces further in; the failing entries of a mapping are   *)
(* each announced by their key; and it has no other line: a child with     *)
(* has_errors false contributes none.                                      *)
(***************************************************************************)
C21_PprintShowsFailingSubtreesOnly ==
    printed # NotPrinted =>
        /\ printed[1] = Line(0, LabelText(result.label))
        /\ \A n \in Shown(result) :
               \E k \in DOMAIN printed :
                   /\ printed[k].text = LabelText(n.label)
                   /\ \A i \in DOMAIN n.error_messages :
                          /\ k + i \in DOMAIN printed
                          /\ printed[k + i] =
                                 Line(printed[k].indent + 2,
                                      BulletText(n.error_messages[i]))
        /\ \A n \in Shown(result) : \A f \in DOMAIN ChildMap(n) :
               ChildMap(n)[f].has_errors =>
                   \E k \in DOMAIN printed :
                       /\ printed[k].text = FieldText(f)
                       /\ printed[k + 1] =
                              Line(printed[k].indent + 2, LabelText(ChildMap(n)[f].label))
        /\ Len(printed) = LineCount(result)
        /\ {printed[k].text.label :
               k \in {j \in DOMAIN printed : printed[j].text.shows = "label"}}
             = {n.label : n \in Shown(result)}

\* A failing TypedDict result rendered while it stores a passing group.
C21_Witness ==
    /\ printed # NotPrinted
    /\ RecordCheck
    /\ type_.t = "typeddict"
    /\ result.has_errors
    /\ result.error_messages # <<>>
    /\ \E c \in ChildrenOf(result) : ~c.has_errors
    /\ \E c \in ChildrenOf(result) : c.has_errors /\ c.children.kind = "dict"
    /\ Len(printed) >= 8

(***************************************************************************)
(* The orders in which the alternatives of the union checked can be given. *)
(***************************************************************************)
Reorderings ==
    {s \in [DOMAIN type_.alts -> Range(type_.alts)] : Range(s) = Range(type_.alts)}

(***************************************************************************)
(* C22: for a union of known variants, giving the alternatives in another  *)
(* order changes neither whether the check returns nor has_errors of the   *)
(* result, and on failure the children hold the same failing alternatives  *)
(* (stated for an interpreter on which every alternative has a __name__).  *)
(***************************************************************************)
C22_UnionOrderIrrelevant ==
    (Done /\ type_.t = "union" /\ alias_named /\ WellFormed(type_)) =>
        \A alts \in Reorderings :
            LET other == typecheck(value, UnionOf(alts))
            IN /\ other.fault = result.fault
               /\ ~result.fault =>
                      /\ other.has_errors = result.has_errors
                      /\ result.has_errors => ChildMap(other) = ChildMap(result)

(***************************************************************************)
(* What the record's declaration makes required: the fields of the parent  *)
(* _T when there is one, every field of a total record without one, none   *)
(* of a non-total record without one; the other declared fields are        *)
(* optional.                                                               *)
(***************************************************************************)
DeclaredRequired ==
    IF type_.has_parent THEN type_.parent
    ELSE IF type_.total THEN DOMAIN type_.hints ELSE {}
DeclaredOptional == DOMAIN type_.hints \ DeclaredRequired

(***************************************************************************)
(* C23: in every check of a mapping against a TypedDict that returns, each *)
(* declared field is treated as required or as optional, never both, as    *)
(* the declaration says: the group "required" reports exactly the absent   *)
(* required fields and holds exactly the failing required ones, the group  *)
(* "optional" (there when some field is optional) reports no absent field  *)
(* and holds exactly the failing optional ones.                            *)
(***************************************************************************)
C23_RequiredAndOptionalPartitionTheFields ==
    (RecordCheck /\ type_.t = "typeddict" /\ ~result.fault) =>
        LET groups == ChildMap(result)
        IN /\ RequiredKeys(type_) \cap OptionalKeys(type_) = {}
           /\ RequiredKeys(type_) \cup OptionalKeys(type_) = DOMAIN type_.hints
           /\ "required" \in DOMAIN groups
           /\ NamedKeys(groups["required"].error_messages) = DeclaredRequired \ Keys
           /\ DOMAIN ChildMap(groups["required"]) = Failing \cap DeclaredRequired
           /\ "optional" \in DOMAIN groups <=> DeclaredOptional # {}
           /\ DeclaredOptional # {} =>
                  /\ groups["optional"].error_messages = <<>>
                  /\ DOMAIN ChildMap(groups["optional"]) = Failing \cap DeclaredOptional

\* A total record with a parent, one field from the parent and one of its
\* own, the required one absent and the optional one failing.
C23_Witness ==
    /\ RecordCheck
    /\ type_.t = "typeddict"
    /\ type_.has_parent
    /\ DeclaredRequired # {}
    /\ DeclaredOptional # {}
    /\ DeclaredRequired \ Keys # {}
    /\ ~result.fault
    /\ Failing \cap DeclaredOptional # {}

(***************************************************************************)
(* The depth of the recursion of typecheck(v, tp): the largest number of    *)
(* calls of typecheck that are under way at once.  A call is under way      *)
(* while the _match_ method it dispatched to runs; _match_page hands the    *)
(* items to _match_list and _match_typeddict the hints to _match_dict       *)
(* without a call of typecheck in between.  Elements and alternatives are   *)
(* visited in order up to the first that raises (or, for a union, passes);  *)
(* of the fields of one mapping any may be visited before one that raises.  *)
(***************************************************************************)
MaxOf(S) == IF S = {} THEN 0 ELSE CHOOSE x \in S : \A y \in S : y <= x

RECURSIVE CallDepth(_, _)

\* The element checks of _match_list, relative to the call that made them.
ListDepth(list_, nested_type) ==
    IF list_.k # "list" THEN 0
    ELSE LET n == Len(list_.items)
             raised == {i \in 1..n : typecheck(list_.items[i], nested_type).fault}
             last == IF raised = {} THEN n ELSE MinOf(raised)
         IN MaxOf({CallDepth(list_.items[i], nested_type) : i \in 1..last})

\* The field checks of _match_dict, relative to the call that made them.
DictDepth(v, tp) ==
    MaxOf({CallDepth(v.m[field], tp[field]) : field \in DOMAIN v.m \cap DOMAIN tp})

\* The alternatives _match_union tries: up to the first that raises, passes
\* or has no __name__.
UnionTried(v, alts) ==
    LET stops == {i \in DOMAIN alts :
                     LET r == typecheck(v, alts[i])
                     IN r.fault \/ ~r.has_errors \/ ~HasName(alts[i])}
    IN 1..(IF stops = {} THEN Len(alts) ELSE MinOf(stops))

\* CallDepth with _match_page handing the items to typecheck as a List type.
CallDepth_page_through_typecheck(v, tp) ==
    LET branch == TypeCheckerDispatch(v, tp)
    IN CASE branch = "dict" -> 1 + DictDepth(v, tp.fields)
         [] branch = "list" -> 1 + ListDepth(v, tp.elem)
         [] branch = "union" ->
               1 + MaxOf({CallDepth(v, tp.alts[i]) : i \in UnionTried(v, tp.alts)})
         [] branch = "page" ->
               IF v.k = "dict"
                  /\ DOMAIN v.m = (IF tp.t = "page" THEN PageFields
                                   ELSE CursorPageFields)
               THEN 1 + CallDepth(v.m["items"], ListOf(tp.item))
               ELSE 1
         [] branch = "typeddict" ->
               IF v.k # "dict" THEN 1
               ELSE LET required == Restrict(tp.hints, RequiredKeys(tp))
                        optional == Restrict(tp.hints, OptionalKeys(tp))
                    IN IF _match_dict(v, required, FALSE).fault
                          \/ DOMAIN optional = {}
                       THEN 1 + DictDepth(v, required)
                       ELSE 1 + MaxOf({DictDepth(v, required),
                                       DictDepth(v, optional)})
         [] OTHER -> 1

CallDepth(v, tp) ==
    LET branch == TypeCheckerDispatch(v, tp)
    IN CASE branch = "dict" -> 1 + DictDepth(v, tp.fields)
         [] branch = "list" -> 1 + ListDepth(v, tp.elem)
         [] branch = "union" ->
               1 + MaxOf({CallDepth(v, tp.alts[i]) : i \in UnionTried(v, tp.alts)})
         [] branch = "page" ->
               IF v.k = "dict"
                  /\ DOMAIN v.m = (IF tp.t = "page" THEN PageFields
                                   ELSE CursorPageFields)
               THEN 1 + ListDepth(v.m["items"], tp.item)
               ELSE 1
         [] branch = "typeddict" ->
               IF v.k # "dict" THEN 1
               ELSE LET required == Restrict(tp.hints, RequiredKeys(tp))
                        optional == Restrict(tp.hints, OptionalKeys(tp))
                    IN IF _match_dict(v, required, FALSE).fault
                          \/ DOMAIN optional = {}
                       THEN 1 + DictDepth(v, required)
                       ELSE 1 + MaxOf({DictDepth(v, required),
                                       DictDepth(v, optional)})
         [] OTHER -> 1

\* The depth of the tree of a type description: a node and the deepest of
\* the descriptions it is made of.
RECURSIVE TypeDepth(_)
TypeDepth(tp) ==
    CASE tp.t = "list" -> 1 + TypeDepth(tp.elem)
      [] tp.t = "union" -> 1 + MaxOf({TypeDepth(tp.alts[i]) : i \in DOMAIN tp.alts})
      [] tp.t \in {"page", "cursor_page"} -> 1 + TypeDepth(tp.item)
      [] tp.t = "typeddict" ->
            1 + MaxOf({TypeDepth(tp.hints[f]) : f \in DOMAIN tp.hints})
      [] tp.t = "dict" ->
            1 + MaxOf({TypeDepth(tp.fields[f]) : f \in DOMAIN tp.fields})
      [] OTHER -> 1

(***************************************************************************)
(* C24: every check of a value against a type description comes to an end, *)
(* by returning a result or by raising, and the depth of its recursion is  *)
(* at least one call and never more than the depth of the tree of the type *)
(* description.                                                            *)
(***************************************************************************)
C24_RecursionBoundedByTypeDepth ==
    Done =>
        /\ result # NotCalled
        /\ CallDepth(value, type_) >= 1
        /\ CallDepth(value, type_) <= TypeDepth(type_)

\* A page whose item checks go as deep as the type description does, and
\* a check that returns a result.
C24_Witness ==
    /\ Done
    /\ type_.t \in {"page", "cursor_page"}
    /\ TypeDepth(type_) >= 3
    /\ CallDepth(value, type_) = TypeDepth(type_)
    /\ ~result.fault

(***************************************************************************)
(* One value of every runtime shape, and the branch each variant of type   *)
(* description is dispatched to.                                           *)
(***************************************************************************)
Shapes == {Scalar(kd) : kd \in ScalarKinds} \cup {ListV(<<>>), DictV(EmptyMap)}
BranchOf(tp) ==
    CASE tp.t = "prim" -> "primitive"
      [] tp.t = "list" -> "list"
      [] tp.t = "union" -> "union"
      [] tp.t \in {"page", "cursor_page"} -> "page"
      [] tp.t = "typeddict" /\ DOMAIN tp.hints # {} -> "typeddict"
      [] OTHER -> "ValueError"

(***************************************************************************)
(* C25: the branch of a check is decided by the variant of the type        *)
(* description alone: values of every runtime shape are routed to the same *)
(* branch as the value checked.  The one exception is a raw field mapping, *)
(* which is routed to the untyped-record check when the value is a mapping *)
(* (and to no branch otherwise): there every key of the type mapping is    *)
(* required, undeclared keys are tolerated, and the common fields are      *)
(* checked recursively, the failing ones stored under their names.         *)
(***************************************************************************)
C25_DispatchByVariantExceptRawMapping ==
    Done =>
        /\ type_.t # "dict" =>
              /\ TypeCheckerDispatch(value, type_) = BranchOf(type_)
              /\ \A v \in Shapes :
                    TypeCheckerDispatch(v, type_) = TypeCheckerDispatch(value, type_)
        /\ type_.t = "dict" =>
              TypeCheckerDispatch(value, type_) =
                  IF value.k = "dict" THEN "dict" ELSE "ValueError"
        /\ (type_.t = "dict" /\ value.k = "dict") =>
              /\ result.fault <=> (\E f \in Present : FieldCheck(f).fault)
              /\ ~result.fault =>
                    /\ result.label = "dict"
                    /\ result.error_messages =
                          IF Missing # {} THEN <<MissingKeysMsg(Missing)>> ELSE <<>>
                    /\ Missing = DOMAIN type_.fields \ Keys
                    /\ ChildMap(result) = [f \in Failing |-> FieldCheck(f)]

\* The exception at work: a mapping checked against a raw field mapping,
\* with a key missing, a key undeclared and a common field that fails.
C25_Witness ==
    /\ RecordCheck
    /\ type_.t = "dict"
    /\ TypeCheckerDispatch(value, type_) = "dict"
    /\ Missing # {}
    /\ Undeclared # {}
    /\ ~result.fault
    /\ Failing # {}

(***************************************************************************)
(* The check of the value against alternative i of the union, and whether  *)
(* the loop of _match_union gets to alternative i: every alternative       *)
(* before it has returned a failing result and been stored under its name. *)
(***************************************************************************)
AltCheck(i) == typecheck(value, type_.alts[i])
Reached(i) ==
    \A j \in 1..(i - 1) :
        /\ ~AltCheck(j).fault
        /\ AltCheck(j).has_errors
        /\ HasName(type_.alts[j])

(***************************************************************************)
(* C26: a union check takes the alternatives in declared order and stops  *)
(* at the first one the value matches: the result is then the union node   *)
(* with no error messages and no children, whatever the alternatives after *)
(* it would do, one that would raise included; and a union check passes    *)
(* only in that way.                                                       *)
(***************************************************************************)
C26_UnionStopsAtFirstMatch ==
    (Done /\ type_.t = "union") =>
        /\ \A i \in DOMAIN type_.alts :
              (Reached(i) /\ Passes(AltCheck(i))) =>
                  /\ ~result.fault
                  /\ result.label = "union"
                  /\ ~result.has_errors
                  /\ result.error_messages = <<>>
                  /\ result.children = NoChildren
        /\ Passes(result) =>
              /\ result.error_messages = <<>>
              /\ result.children = NoChildren
              /\ \E i \in DOMAIN type_.alts : Reached(i) /\ Passes(AltCheck(i))

\* The first alternative matches and a later one would raise.
C26_Witness ==
    /\ Done
    /\ type_.t = "union"
    /\ Passes(AltCheck(1))
    /\ \E i \in DOMAIN type_.alts : i > 1 /\ AltCheck(i).fault
    /\ Passes(result)

(***************************************************************************)
(* The outcomes of the three copies of the checker on the input of the     *)
(* call made, and whether two outcomes agree: both raise, or both return   *)
(* a result and the two have the same has_errors.                          *)
(***************************************************************************)
CopyOutcomes ==
    {typecheck(value, type_), match(value, type_), _TypeChecker_match(value, type_)}
Agree(r, q) ==
    /\ r.fault = q.fault
    /\ ~r.fault => r.has_errors = q.has_errors

(***************************************************************************)
(* C27: for every value and every type description built from the known    *)
(* variants, the outcome of the copy that was called agrees with that of   *)
(* the two other copies: all three raise, or all three return results with *)
(* the same has_errors.                                                    *)
(***************************************************************************)
C27_CopiesAgree ==
    (checker # "none" /\ alias_named /\ WellFormed(type_)) =>
        \A r \in CopyOutcomes : Agree(result, r)

(***************************************************************************)
(* The mappings with the keys and the items of the mapping checked and     *)
(* other values in the other fields: one field changed, or all of them.    *)
(***************************************************************************)
OtherValues == {Scalar("null"), Scalar("int"), Scalar("str"), ListV(<<>>), ImageOk}
Revalued ==
    LET others == Keys \ {"items"}
    IN {DictV([value.m EXCEPT ![key] = w]) : key \in others, w \in OtherValues}
       \cup {DictV([key \in Keys |-> IF key = "items" THEN value.m[key] ELSE w]) :
                w \in OtherValues}

(***************************************************************************)
(* C28: the outcome of the check of a mapping against Page[item] or        *)
(* CursorPage[item] depends on the set of its keys and on the value of     *)
(* items only: a mapping with the same keys and items and other values of  *)
(* href, limit, next, offset, previous, total or cursors (or of an         *)
(* unrecognized key) has an equal outcome, the same result tree or the     *)
(* same exception.                                                         *)
(***************************************************************************)
C28_PageOutcomeFromKeysAndItems ==
    PageCheck => \A w \in Revalued : typecheck(w, type_) = result

\* A page with the exact fields whose items are checked and fail, and
\* mappings that differ from it in the other fields.
C28_Witness ==
    /\ PageCheck
    /\ Keys = FixedFields
    /\ \E w \in Revalued : w # value
    /\ ~result.fault
    /\ result.has_errors
    /\ result.children.kind = "single"

(***************************************************************************)
(* The requests of the search under way: how many items had been counted   *)
(* before request j was sent, and whether every answer so far held at most *)
(* as many items as the request asked for.                                 *)
(***************************************************************************)
RECURSIVE CountBefore(_)
CountBefore(j) ==
    IF j <= 1 THEN 0 ELSE CountBefore(j - 1) + search.requests[j - 1].items
TotalGiven == search.pc # "idle" /\ search.total # 0
WithinLimit ==
    \A j \in DOMAIN search.requests :
        search.requests[j].items <= search.requests[j].limit

(***************************************************************************)
(* C29: in a multi-market search with a total given, as long as every      *)
(* answer holds at most as many first-type items as its request asked for: *)
(* the cumulative count is at most total after every request; every        *)
(* request is sent with a limit between 1 and the remaining total - count; *)
(* the markets are queried in list order; and no request is sent once the  *)
(* count has reached total.                                                *)
(***************************************************************************)
C29_SearchStaysWithinTotal ==
    (TotalGiven /\ WithinLimit) =>
        /\ search.count = CountBefore(Len(search.requests) + 1)
        /\ search.count <= search.total
        /\ Len(search.requests) <= Len(search.markets)
        /\ \A j \in DOMAIN search.requests :
              /\ CountBefore(j + 1) <= search.total
              /\ search.requests[j].limit >= 1
              /\ search.requests[j].limit <= search.total - CountBefore(j)
              /\ search.requests[j].market = search.markets[j]
              /\ CountBefore(j) < search.total

\* A search that lowered its limit for the second request, reached total
\* with it and left the third market of the list alone.
C29_Witness ==
    /\ TotalGiven
    /\ WithinLimit
    /\ search.pc = "returned"
    /\ Len(search.requests) = 2
    /\ Len(search.markets) = 3
    /\ search.requests[2].limit < search.requests[1].limit
    /\ search.count = search.total

(***************************************************************************)
(* The internal HTTP call that has ended: what the session did, and how    *)
(* the call ended.                                                         *)
(***************************************************************************)
CallEnded == http.pc = "done"
HttpErrorStatus == http.reply.kind = "response" /\ http.reply.status >= 400
Successful == http.reply.kind = "response" /\ http.reply.status < 400
RetriesExhausted == http.reply.kind = "RetryError"
RaisedSpotifyException(status) ==
    /\ http.outcome.kind = "raised"
    /\ http.outcome.exc = "SpotifyException"
    /\ http.outcome.http_status = status

(***************************************************************************)
(* C30: every internal HTTP call ends in exactly one of three ways: on a   *)
(* response with an HTTP error status it raises SpotifyException with that *)
(* status; on exhausted retries it raises SpotifyException with status     *)
(* 429; on a successful response it returns the parsed JSON body, or None  *)
(* when the body is not valid JSON.  It ends in no other way, and it       *)
(* returns a value only on a successful response.                          *)
(***************************************************************************)
C30_CallEndsInOneOfThreeOutcomes ==
    CallEnded =>
        /\ HttpErrorStatus \/ RetriesExhausted \/ Successful
        /\ HttpErrorStatus => RaisedSpotifyException(http.reply.status)
        /\ RetriesExhausted => RaisedSpotifyException(429)
        /\ Successful =>
              http.outcome = Returned(IF http.reply.body.kind = "text" THEN None
                                      ELSE http.reply.body)
        /\ http.outcome.kind = "returned" => Successful
=============================================================================
